---- MODULE Spec2Model ----
(***************************************************************************)
(* Teaching-session diff engine of the MCPServer editor plugin:            *)
(* FMCPTeachingSessionManager (start / stop / custom events), the replay   *)
(* of the editor transaction buffer with before/after snapshots, the diff  *)
(* builder and the filter chain, together with the module-level wrappers   *)
(* of FMCPServerModule.                                                    *)
(*                                                                         *)
(* Strings on which the code performs substring tests (class names,        *)
(* object paths, property names) are sequences of one-character strings;   *)
(* FString::Contains / EndsWith / StartsWith default to                    *)
(* ESearchCase::IgnoreCase and are modelled that way.                      *)
(***************************************************************************)
EXTENDS Integers, Sequences, FiniteSets, TLC

(***************************************************************************)
(* Bounds of the model.                                                    *)
(***************************************************************************)
MaxQueue == 3
MaxEvents == 1
MaxSessions == 2
MaxFaults == 1

INDEX_NONE == 0 - 1

(***************************************************************************)
(* FString helpers.                                                        *)
(***************************************************************************)
ToLower(c) ==
    CASE c = "A" -> "a" [] c = "B" -> "b" [] c = "C" -> "c" [] c = "D" -> "d"
      [] c = "E" -> "e" [] c = "F" -> "f" [] c = "G" -> "g" [] c = "H" -> "h"
      [] c = "I" -> "i" [] c = "J" -> "j" [] c = "K" -> "k" [] c = "L" -> "l"
      [] c = "M" -> "m" [] c = "N" -> "n" [] c = "O" -> "o" [] c = "P" -> "p"
      [] c = "Q" -> "q" [] c = "R" -> "r" [] c = "S" -> "s" [] c = "T" -> "t"
      [] c = "U" -> "u" [] c = "V" -> "v" [] c = "W" -> "w" [] c = "X" -> "x"
      [] c = "Y" -> "y" [] c = "Z" -> "z" [] OTHER -> c

MatchAt(s, sub, i) ==
    /\ i >= 1
    /\ i + Len(sub) - 1 <= Len(s)
    /\ \A j \in 1..Len(sub) : ToLower(s[i + j - 1]) = ToLower(sub[j])

Contains(s, sub) ==
    /\ Len(sub) > 0
    /\ \E i \in 1..Len(s) : MatchAt(s, sub, i)

StartsWith(s, sub) == Len(sub) > 0 /\ MatchAt(s, sub, 1)

EndsWith(s, sub) == Len(sub) > 0 /\ MatchAt(s, sub, Len(s) - Len(sub) + 1)

STR_Blueprint == <<"B","l","u","e","p","r","i","n","t">>
STR_C == <<"_","C">>
STR_Actor == <<"A","c","t","o","r">>
STR_Component == <<"C","o","m","p","o","n","e","n","t">>
STR_GameplayAbility == <<"G","a","m","e","p","l","a","y","A","b","i","l","i","t","y">>
STR_Ability == <<"A","b","i","l","i","t","y">>
STR_Underscore == <<"_">>

(***************************************************************************)
(* The live scene: the UObjects that transactions touch, their classes     *)
(* and the reflected properties of each class.                             *)
(***************************************************************************)
Objects == {"act", "bp", "mat"}

\* GetClass()->GetName()
ClassNameOf(o) ==
    CASE o = "act" -> <<"S","t","a","t","i","c","M","e","s","h","A","c","t","o","r">>
      [] o = "bp" -> STR_Blueprint
      [] OTHER -> <<"M","a","t","e","r","i","a","l">>

\* GetPathName()
PathNameOf(o) ==
    CASE o = "act" -> <<"M","a","p",".","C","u","b","e">>
      [] o = "bp" -> <<"B","P","_","D","o","o","r">>
      [] OTHER -> <<"M","a","p",".","M","a","t">>

\* FName::ToString of the property names used by the scene classes.
NameToString(n) ==
    CASE n = "Loc" -> <<"L","o","c">>
      [] n = "Cache" -> <<"C","a","c","h","e">>
      [] n = "Desc" -> <<"D","e","s","c">>
      [] n = "_Tmp" -> <<"_","T","m","p">>
      [] n = "Ref" -> <<"R","e","f">>
      [] OTHER -> <<>>

\* TFieldIterator<FProperty>(Class): the reflected fields with their flags.
ClassProperties(o) ==
    CASE o = "act" ->
            << [name |-> "Loc", kind |-> "IntProperty", flags |-> {"CPF_Edit"}],
               [name |-> "Cache", kind |-> "IntProperty", flags |-> {}] >>
      [] o = "bp" ->
            << [name |-> "Desc", kind |-> "IntProperty", flags |-> {"CPF_Edit"}] >>
      [] OTHER -> <<>>

PropertyNames(o) == {ClassProperties(o)[i].name : i \in 1..Len(ClassProperties(o))}

FreshObject(o) == [alive |-> TRUE, vals |-> [n \in PropertyNames(o) |-> 0]]

(***************************************************************************)
(* Diff records (MCPTeachingSessionManager.h).                             *)
(***************************************************************************)
ObjectHasDifferences(od) ==
    od.bIsObjectAdded \/ od.bIsObjectRemoved \/ Len(od.PropertyDiffs) > 0

TransactionHasDifferences(td) ==
    \E k \in 1..Len(td.ObjectDiffs) : ObjectHasDifferences(td.ObjectDiffs[k])

FreshSessionState ==
    [bIsRecording |-> FALSE, QueueLengthAtStart |-> INDEX_NONE,
     CustomEvents |-> <<>>, CapturedDiffs |-> <<>>]

(***************************************************************************)
(* Snapshot store.                                                         *)
(***************************************************************************)
CloneOutcomes == {"ok", "null", "invalid", "mismatch"}

\* A clone carries the reflected fields of its class and a copy of the values.
CloneOf(scene, o) == [props |-> ClassProperties(o), vals |-> scene[o].vals]

RECURSIVE DuplicateSnapshots(_, _, _)
DuplicateSnapshots(scene, SourceObjects, outcome) ==
    IF SourceObjects = <<>> THEN <<>>
    ELSE LET Obj == Head(SourceObjects)
             rest == DuplicateSnapshots(scene, Tail(SourceObjects), outcome)
         IN  IF ~scene[Obj].alive THEN rest
             ELSE IF outcome[Obj] # "ok" THEN rest
             ELSE <<[key |-> Obj, clone |-> CloneOf(scene, Obj)]>> \o rest

\* Clones that DuplicateSnapshots creates with RF_Standalone and then skips
\* without adding them to the map: the invalid and the wrong-class results.
UnreleasedClones(scene, SourceObjects, outcome) ==
    Cardinality({j \in 1..Len(SourceObjects) :
                    /\ scene[SourceObjects[j]].alive
                    /\ outcome[SourceObjects[j]] \in {"invalid", "mismatch"}})

MapContains(m, k) == \E j \in 1..Len(m) : m[j].key = k

MapFind(m, k) == m[CHOOSE j \in 1..Len(m) : m[j].key = k].clone

(***************************************************************************)
(* Structural differ.                                                      *)
(***************************************************************************)
IsReferenceKind(kind) ==
    kind \in {"ObjectProperty", "WeakObjectProperty", "SoftObjectProperty"}

\* UMCPObjectInformDumpLibrary::ExportPropertyValueToText
ExportPropertyValue(kind, v) ==
    IF IsReferenceKind(kind)
    THEN (IF v.null THEN "null" ELSE v.path)
    ELSE ToString(v)

\* Mutant: every field present on both sides is reported.
IsDifferent_Always(kind, old, new) == TRUE

IsDifferent(kind, old, new) ==
    CASE kind = "ObjectProperty" ->
            IF old.null # new.null THEN TRUE
            ELSE IF ~old.null /\ ~new.null THEN old.cls # new.cls
            ELSE FALSE
      [] kind = "WeakObjectProperty" ->
            IF old.null # new.null THEN TRUE
            ELSE IF ~old.null /\ ~new.null THEN old.path # new.path
            ELSE FALSE
      [] kind = "SoftObjectProperty" -> old.path # new.path
      [] OTHER -> old # new

PropIndex(props, n) == CHOOSE j \in 1..Len(props) : props[j].name = n

HasProp(props, n) == \E j \in 1..Len(props) : props[j].name = n

RECURSIVE OldPropertyDiffs(_, _, _)
OldPropertyDiffs(OldObject, NewObject, k) ==
    IF k > Len(OldObject.props) THEN <<>>
    ELSE LET OldProperty == OldObject.props[k]
             PropertyName == OldProperty.name
             rest == OldPropertyDiffs(OldObject, NewObject, k + 1)
         IN  IF ~HasProp(NewObject.props, PropertyName)
             THEN <<[PropertyName |-> PropertyName,
                     PropertyPath |-> NameToString(PropertyName),
                     OldValue |-> <<ExportPropertyValue(OldProperty.kind, OldObject.vals[PropertyName])>>,
                     NewValue |-> <<"<removed>">>,
                     bIsPropertyAdded |-> FALSE,
                     bIsPropertyRemoved |-> TRUE]>> \o rest
             ELSE LET NewProperty == NewObject.props[PropIndex(NewObject.props, PropertyName)]
                      OldV == OldObject.vals[PropertyName]
                      NewV == NewObject.vals[PropertyName]
                  IN  IF OldProperty.kind # NewProperty.kind
                      THEN <<[PropertyName |-> PropertyName,
                              PropertyPath |-> NameToString(PropertyName),
                              OldValue |-> <<ExportPropertyValue(OldProperty.kind, OldV), OldProperty.kind>>,
                              NewValue |-> <<ExportPropertyValue(NewProperty.kind, NewV), NewProperty.kind>>,
                              bIsPropertyAdded |-> FALSE,
                              bIsPropertyRemoved |-> FALSE]>> \o rest
                      ELSE IF IsDifferent(OldProperty.kind, OldV, NewV)
                      THEN <<[PropertyName |-> PropertyName,
                              PropertyPath |-> NameToString(PropertyName),
                              OldValue |-> <<ExportPropertyValue(OldProperty.kind, OldV)>>,
                              NewValue |-> <<ExportPropertyValue(NewProperty.kind, NewV)>>,
                              bIsPropertyAdded |-> FALSE,
                              bIsPropertyRemoved |-> FALSE]>> \o rest
                      ELSE rest

RECURSIVE NewPropertyDiffs(_, _, _)
NewPropertyDiffs(OldObject, NewObject, k) ==
    IF k > Len(NewObject.props) THEN <<>>
    ELSE LET NewProperty == NewObject.props[k]
             PropertyName == NewProperty.name
             rest == NewPropertyDiffs(OldObject, NewObject, k + 1)
         IN  IF ~HasProp(OldObject.props, PropertyName)
             THEN <<[PropertyName |-> PropertyName,
                     PropertyPath |-> NameToString(PropertyName),
                     OldValue |-> <<"<added>">>,
                     NewValue |-> <<ExportPropertyValue(NewProperty.kind, NewObject.vals[PropertyName])>>,
                     bIsPropertyAdded |-> TRUE,
                     bIsPropertyRemoved |-> FALSE]>> \o rest
             ELSE rest

CollectPropertyDiffs(OldObject, NewObject) ==
    OldPropertyDiffs(OldObject, NewObject, 1) \o NewPropertyDiffs(OldObject, NewObject, 1)

RECURSIVE BeforeObjectDiffs(_, _, _)
BeforeObjectDiffs(Before, After, k) ==
    IF k > Len(Before) THEN <<>>
    ELSE LET OriginalObj == Before[k].key
             OldSnapshot == Before[k].clone
             rest == BeforeObjectDiffs(Before, After, k + 1)
             ObjectDiff ==
                 [ObjectPath |-> PathNameOf(OriginalObj),
                  ObjectClass |-> ClassNameOf(OriginalObj),
                  bIsObjectAdded |-> FALSE,
                  bIsObjectRemoved |-> ~MapContains(After, OriginalObj),
                  PropertyDiffs |->
                      IF MapContains(After, OriginalObj)
                      THEN CollectPropertyDiffs(OldSnapshot, MapFind(After, OriginalObj))
                      ELSE <<>>]
         IN  IF ObjectHasDifferences(ObjectDiff) THEN <<ObjectDiff>> \o rest ELSE rest

\* Mutant: the loop over the after map is missing.
AfterObjectDiffs_None(Before, After, k) == <<>>

RECURSIVE AfterObjectDiffs(_, _, _)
AfterObjectDiffs(Before, After, k) ==
    IF k > Len(After) THEN <<>>
    ELSE LET rest == AfterObjectDiffs(Before, After, k + 1)
         IN  IF ~MapContains(Before, After[k].key)
             THEN <<[ObjectPath |-> PathNameOf(After[k].key),
                     ObjectClass |-> ClassNameOf(After[k].key),
                     bIsObjectAdded |-> TRUE,
                     bIsObjectRemoved |-> FALSE,
                     PropertyDiffs |-> <<>>]>> \o rest
             ELSE rest

BuildDiffFromSnapshots(TransactionIndex, Transaction, Before, After) ==
    [TransactionIndex |-> TransactionIndex,
     TransactionTitle |-> Transaction.title,
     TransactionContext |-> Transaction.context,
     ObjectDiffs |-> BeforeObjectDiffs(Before, After, 1) \o AfterObjectDiffs(Before, After, 1)]

(***************************************************************************)
(* Filter chain (MCPTeachingDataFilter.cpp).                               *)
(***************************************************************************)
BlueprintObjectFilter == "FMCPBlueprintObjectFilter"
BlueprintVisiblePropertyFilter == "FMCPBlueprintVisiblePropertyFilter"

\* Mutant: the scan ends at the first element it removes.
RemoveRejected_Once(arr, keep, i) ==
    IF \E j \in 1..i : ~keep[j]
    THEN LET j == CHOOSE j \in 1..i : ~keep[j] /\ \A k \in (j + 1)..i : keep[k]
         IN  SubSeq(arr, 1, j - 1) \o SubSeq(arr, j + 1, Len(arr))
    ELSE arr

\* Removes the elements at which keep is FALSE, scanning from the last index
\* down to the first as the RemoveAt loops do.
RECURSIVE RemoveRejected(_, _, _)
RemoveRejected(arr, keep, i) ==
    IF i < 1 THEN arr
    ELSE IF keep[i]
         THEN RemoveRejected(arr, keep, i - 1)
         ELSE RemoveRejected(SubSeq(arr, 1, i - 1) \o SubSeq(arr, i + 1, Len(arr)), keep, i - 1)

\* Mutant: the read-only flags are not looked at.
IsBlueprintEditable_AnyMarker(Property) ==
    IF Property.flags \cap {"CPF_Edit", "CPF_BlueprintVisible"} = {}
    THEN FALSE
    ELSE TRUE

IsBlueprintEditable(Property) ==
    IF Property.flags \cap {"CPF_EditConst", "CPF_BlueprintReadOnly",
                            "CPF_DisableEditOnInstance", "CPF_DisableEditOnTemplate"} # {}
    THEN FALSE
    ELSE IF Property.flags \cap {"CPF_Edit", "CPF_BlueprintVisible"} = {}
    THEN FALSE
    ELSE TRUE

\* FindObject / LoadObject by path: the live object with that path, if any.
FindObject(path) ==
    IF \E o \in Objects : PathNameOf(o) = path
    THEN CHOOSE o \in Objects : PathNameOf(o) = path
    ELSE "none"

\* FMCPTeachingDataFilterBase::FilterSingleProperty keeps every property.
BaseFilterSingleProperty(pd) == TRUE

BaseFilterPropertyDiffs(pds) ==
    RemoveRejected(pds, [i \in 1..Len(pds) |-> BaseFilterSingleProperty(pds[i])], Len(pds))

\* Mutant: the object diff that is kept loses its added flag.
BaseFilterSingleObject_DropFlag(od) ==
    LET out == [od EXCEPT !.PropertyDiffs = BaseFilterPropertyDiffs(od.PropertyDiffs)]
    IN  [keep |-> ObjectHasDifferences(out), diff |-> [out EXCEPT !.bIsObjectAdded = FALSE]]

\* Each FilterSingleObject yields the verdict and the object diff as mutated.
BaseFilterSingleObject(od) ==
    LET out == [od EXCEPT !.PropertyDiffs = BaseFilterPropertyDiffs(od.PropertyDiffs)]
    IN  [keep |-> ObjectHasDifferences(out), diff |-> out]

\* Mutant: the path of the object is not looked at.
BlueprintObjectFilterSingleObject_AnyPath(od) ==
    IF Contains(od.ObjectClass, STR_Blueprint)
    THEN [keep |-> FALSE, diff |-> od]
    ELSE BaseFilterSingleObject(od)

BlueprintObjectFilterSingleObject(od) ==
    IF Contains(od.ObjectClass, STR_Blueprint) /\ ~Contains(od.ObjectPath, STR_C)
    THEN [keep |-> FALSE, diff |-> od]
    ELSE BaseFilterSingleObject(od)

ShouldFilterProperties(ObjectClass) ==
    IF Contains(ObjectClass, STR_Actor) \/ EndsWith(ObjectClass, STR_C) THEN TRUE
    ELSE IF Contains(ObjectClass, STR_Component) THEN TRUE
    ELSE IF Contains(ObjectClass, STR_GameplayAbility) \/ Contains(ObjectClass, STR_Ability) THEN TRUE
    ELSE FALSE

\* Mutant: the object diff is kept although none of its properties is left.
VisiblePropertyFilterSingleObject_KeepEmpty(od) ==
    IF ~ShouldFilterProperties(od.ObjectClass)
    THEN [keep |-> TRUE, diff |-> od]
    ELSE [keep |-> TRUE, diff |-> [od EXCEPT !.PropertyDiffs = <<>>]]

VisiblePropertyFilterSingleObject(od) ==
    IF ~ShouldFilterProperties(od.ObjectClass)
    THEN [keep |-> ObjectHasDifferences(od), diff |-> od]
    ELSE LET FoundObject == FindObject(od.ObjectPath)
             pds == od.PropertyDiffs
             keepProp ==
                 IF FoundObject # "none"
                 THEN [i \in 1..Len(pds) |->
                         LET props == ClassProperties(FoundObject)
                         IN  IF HasProp(props, pds[i].PropertyName)
                             THEN IsBlueprintEditable(props[PropIndex(props, pds[i].PropertyName)])
                             ELSE TRUE]
                 ELSE [i \in 1..Len(pds) |->
                         ~StartsWith(NameToString(pds[i].PropertyName), STR_Underscore)]
             out == [od EXCEPT !.PropertyDiffs = RemoveRejected(pds, keepProp, Len(pds))]
         IN  [keep |-> ObjectHasDifferences(out), diff |-> out]

FilterSingleObject(Filter, od) ==
    IF Filter = BlueprintObjectFilter THEN BlueprintObjectFilterSingleObject(od)
    ELSE IF Filter = BlueprintVisiblePropertyFilter THEN VisiblePropertyFilterSingleObject(od)
    ELSE BaseFilterSingleObject(od)

FilterObjectDiffs(Filter, ods) ==
    LET res == [i \in 1..Len(ods) |-> FilterSingleObject(Filter, ods[i])]
    IN  RemoveRejected([i \in 1..Len(ods) |-> res[i].diff],
                       [i \in 1..Len(ods) |-> res[i].keep], Len(ods))

\* Mutant: a transaction is kept whatever is left of it.
FilterSingleTransaction_KeepAll(Filter, td) ==
    [keep |-> TRUE,
     diff |-> [td EXCEPT !.ObjectDiffs = FilterObjectDiffs(Filter, td.ObjectDiffs)]]

FilterSingleTransaction(Filter, td) ==
    LET out == [td EXCEPT !.ObjectDiffs = FilterObjectDiffs(Filter, td.ObjectDiffs)]
    IN  [keep |-> TransactionHasDifferences(out), diff |-> out]

FilterTransactionDiffs(Filter, tds) ==
    LET res == [i \in 1..Len(tds) |-> FilterSingleTransaction(Filter, tds[i])]
    IN  RemoveRejected([i \in 1..Len(tds) |-> res[i].diff],
                       [i \in 1..Len(tds) |-> res[i].keep], Len(tds))

\* Mutant: the loop over the filters ends after the first one.
ApplyFilters_FirstOnly(Filters, InOutDiffs) ==
    IF Len(Filters) = 0 THEN InOutDiffs
    ELSE FilterTransactionDiffs(Head(Filters), InOutDiffs)

RECURSIVE ApplyFilters(_, _)
ApplyFilters(Filters, InOutDiffs) ==
    IF Len(Filters) = 0 THEN InOutDiffs
    ELSE ApplyFilters(Tail(Filters), FilterTransactionDiffs(Head(Filters), InOutDiffs))

VARIABLES
    Editor,          \* "null": GEditor is null; "notrans": GEditor->Trans is null; "ok"
    UndoBuffer,      \* UTransBuffer::UndoBuffer, oldest transaction first
    UndoCount,       \* UTransBuffer::UndoCount, number of undone transactions
    Scene,           \* state of the live objects
    ManagerValid,    \* FMCPServerModule::TeachingSessionManager.IsValid()
    SessionState,    \* FMCPTeachingSessionState
    FilterChain,     \* FMCPTeachingDataFilterChain::Filters
    ActiveNotification, \* ActiveNotification.IsValid()
    CompletionState, \* last SetCompletionState of the notification item
    Starts,          \* number of sessions started so far
    pc,              \* position inside StopTeachingSession
    Locals,          \* StartIndex, EndIndex, QueueLength, i, TxIndex of the running stop
    Calls            \* record of the host calls made by the most recent stop

vars == <<Editor, UndoBuffer, UndoCount, Scene, ManagerValid, SessionState,
          FilterChain, ActiveNotification, CompletionState, Starts, pc, Locals, Calls>>

(***************************************************************************)
(* Host edit history (UTransBuffer behind GEditor->Trans).  A transaction  *)
(* toggles fields of the objects it touches, so applying it again undoes   *)
(* it.  The index of the most recent applied transaction is                *)
(* GetQueueLength() - GetUndoCount() - 1.                                  *)
(***************************************************************************)
Tx(t, ops) == [title |-> t, context |-> "Editor", ops |-> ops]

TxKinds ==
    { Tx("MoveActor", <<[obj |-> "act", op |-> "Loc"], [obj |-> "act", op |-> "Cache"],
                        [obj |-> "bp", op |-> "Desc"]>>),
      Tx("ToggleMaterial", <<[obj |-> "act", op |-> "Cache"], [obj |-> "mat", op |-> "alive"]>>),
      Tx("SetCache", <<[obj |-> "act", op |-> "Cache"], [obj |-> "bp", op |-> "touch"]>>) }

ApplyOp(objState, op) ==
    IF op = "alive" THEN [objState EXCEPT !.alive = ~objState.alive]
    ELSE IF op = "touch" THEN objState
    ELSE [objState EXCEPT !.vals[op] = 1 - objState.vals[op]]

RECURSIVE ApplyOps(_, _)
ApplyOps(scene, ops) ==
    IF ops = <<>> THEN scene
    ELSE ApplyOps([scene EXCEPT ![Head(ops).obj] = ApplyOp(scene[Head(ops).obj], Head(ops).op)],
                  Tail(ops))

ApplyTransaction(scene, tx) == ApplyOps(scene, tx.ops)

\* FTransaction::GetTransactionObjects: each touched object once.
RECURSIVE UniqueObjects(_, _)
UniqueObjects(ops, acc) ==
    IF ops = <<>> THEN acc
    ELSE UniqueObjects(Tail(ops),
                       IF \E j \in 1..Len(acc) : acc[j] = Head(ops).obj
                       THEN acc ELSE Append(acc, Head(ops).obj))

GetTransactionObjects(tx) == UniqueObjects(tx.ops, <<>>)

GetTransBuffer == IF Editor = "ok" THEN "Trans" ELSE "nullptr"

GetQueueLength == Len(UndoBuffer)

CanUndo == UndoCount < Len(UndoBuffer)

CanRedo == UndoCount > 0

\* Mutant: the redo re-applies the most recent transaction of the queue.
RedoCursor_Last == Len(UndoBuffer) - 1

\* Queue index (0-based) of the transaction that the next redo re-applies.
RedoCursor == Len(UndoBuffer) - UndoCount

NoLocals == [StartIndex |-> INDEX_NONE, EndIndex |-> INDEX_NONE,
             QueueLength |-> 0, i |-> 0, TxIndex |-> 0]

NoCalls == [op |-> "none", outcome |-> "none",
            StartIndex |-> INDEX_NONE, EndIndex |-> INDEX_NONE,
            undo |-> 0, undoFailed |-> FALSE, redo |-> <<>>, missing |-> {},
            snap |-> 0, release |-> 0, standalone |-> 0, faults |-> 0,
            visited |-> <<>>, built |-> <<>>, filter |-> 0, sink |-> 0]

Init ==
    /\ Editor \in {"null", "notrans", "ok"}
    /\ UndoBuffer = <<>>
    /\ UndoCount = 0
    /\ Scene = [o \in Objects |-> FreshObject(o)]
    /\ ManagerValid = FALSE
    /\ SessionState = FreshSessionState
    /\ FilterChain = <<>>
    /\ ActiveNotification = FALSE
    /\ CompletionState = "none"
    /\ Starts = 0
    /\ pc = "idle"
    /\ Locals = NoLocals
    /\ Calls = NoCalls

hostVars == <<Editor, UndoBuffer, UndoCount, Scene>>
managerVars == <<SessionState, FilterChain, ActiveNotification, CompletionState>>

(***************************************************************************)
(* The user working in the editor.                                         *)
(***************************************************************************)
OpAllowed(scene, o) == o.op = "alive" \/ scene[o.obj].alive

\* The user edits before the first session and while a session records.
EditorInUse == pc = "idle" /\ (SessionState.bIsRecording \/ Starts = 0)

Edit(tx) ==
    /\ EditorInUse
    /\ Editor = "ok"
    /\ Len(UndoBuffer) - UndoCount < MaxQueue
    /\ \A k \in 1..Len(tx.ops) : OpAllowed(Scene, tx.ops[k])
    /\ UndoBuffer' = Append(SubSeq(UndoBuffer, 1, Len(UndoBuffer) - UndoCount), tx)
    /\ UndoCount' = 0
    /\ Scene' = ApplyTransaction(Scene, tx)
    /\ UNCHANGED <<Editor, ManagerValid, SessionState, FilterChain,
                   ActiveNotification, CompletionState, Starts, pc, Locals, Calls>>

UserUndo ==
    /\ EditorInUse
    /\ Editor = "ok"
    /\ CanUndo
    /\ Scene' = ApplyTransaction(Scene, UndoBuffer[Len(UndoBuffer) - UndoCount])
    /\ UndoCount' = UndoCount + 1
    /\ UNCHANGED <<Editor, UndoBuffer, ManagerValid, SessionState, FilterChain,
                   ActiveNotification, CompletionState, Starts, pc, Locals, Calls>>

UserRedo ==
    /\ EditorInUse
    /\ Editor = "ok"
    /\ CanRedo
    /\ Scene' = ApplyTransaction(Scene, UndoBuffer[RedoCursor + 1])
    /\ UndoCount' = UndoCount - 1
    /\ UNCHANGED <<Editor, UndoBuffer, ManagerValid, SessionState, FilterChain,
                   ActiveNotification, CompletionState, Starts, pc, Locals, Calls>>

\* The editor or its transaction buffer comes or goes (editor start-up and
\* shut-down, map change); the history is reset and the level reloaded.
EditorChange(e) ==
    /\ EditorInUse
    /\ e # Editor
    /\ Editor' = e
    /\ UndoBuffer' = <<>>
    /\ UndoCount' = 0
    /\ Scene' = [o \in Objects |-> FreshObject(o)]
    /\ UNCHANGED <<ManagerValid, SessionState, FilterChain,
                   ActiveNotification, CompletionState, Starts, pc, Locals, Calls>>

(***************************************************************************)
(* FMCPTeachingSessionManager.                                             *)
(***************************************************************************)
EventNames == {"e1"}
Payloads == {"p"}
Timestamps == {1}

HideRecordingNotification(bSuccess) ==
    IF ActiveNotification
    THEN /\ CompletionState' = (IF bSuccess THEN "CS_Success" ELSE "CS_Fail")
         /\ ActiveNotification' = FALSE
    ELSE UNCHANGED <<ActiveNotification, CompletionState>>

\* The Slate notification manager is present (editor with UI), so
\* AddNotification yields a valid item.
ShowRecordingNotification ==
    /\ ActiveNotification' = TRUE
    /\ CompletionState' = "CS_Pending"

\* Mutant: the filters of the previous session stay registered.
ClearFilters_Keep == FilterChain

\* FMCPTeachingDataFilterChain::ClearFilters, called at the end of ResetSession.
ClearFilters == <<>>

\* Mutant: the diffs of the previous session survive the reset.
ResetSession_KeepDiffs ==
    [FreshSessionState EXCEPT !.CapturedDiffs = SessionState.CapturedDiffs]

\* The session state that ResetSession leaves (its ClearFilters is the
\* caller's FilterChain' = ClearFilters).
ResetSession == FreshSessionState

\* ResetSession followed by the rest of StartTeachingSession.
StartTeachingSession ==
    IF Editor = "null"
    THEN /\ UNCHANGED <<managerVars, Starts>>
         /\ Calls' = [NoCalls EXCEPT !.op = "start", !.outcome = "no-editor"]
    ELSE /\ SessionState' =
               [ResetSession EXCEPT
                   !.QueueLengthAtStart =
                       (IF GetTransBuffer # "nullptr" THEN GetQueueLength ELSE INDEX_NONE),
                   !.bIsRecording = TRUE]
         /\ FilterChain' = ClearFilters
         /\ ShowRecordingNotification
         /\ Starts' = Starts + 1
         /\ Calls' = [NoCalls EXCEPT !.op = "start", !.outcome = "recording"]

CollectAndApplyFilters(chain) ==
    Append(Append(chain, BlueprintObjectFilter), BlueprintVisiblePropertyFilter)

\* Mutant: the end index starts at 0 instead of the sentinel.
ComputeEndIndex_Zero ==
    IF GetTransBuffer # "nullptr" THEN GetQueueLength - 1 ELSE 0

\* The end of the captured range as StopTeachingSession computes it.
ComputeEndIndex ==
    IF GetTransBuffer # "nullptr" THEN GetQueueLength - 1 ELSE INDEX_NONE

\* Mutant: the stop of an idle session still closes the notification.
StopInactive_Hide ==
    /\ UNCHANGED <<SessionState, FilterChain, pc, Locals>>
    /\ ActiveNotification' = FALSE
    /\ CompletionState' = "CS_Fail"
    /\ Calls' = [NoCalls EXCEPT !.op = "stop", !.outcome = "inactive"]

\* StopTeachingSession on a session that is not recording.
StopInactive ==
    /\ UNCHANGED <<managerVars, pc, Locals>>
    /\ Calls' = [NoCalls EXCEPT !.op = "stop", !.outcome = "inactive"]

\* StopTeachingSession up to the first undo of the rewind.
StopTeachingSession ==
    IF ~SessionState.bIsRecording
    THEN StopInactive
    ELSE LET StartIndex == SessionState.QueueLengthAtStart
             EndIndex == ComputeEndIndex
             log == [NoCalls EXCEPT !.op = "stop", !.StartIndex = StartIndex,
                                    !.EndIndex = EndIndex]
         IN  IF StartIndex = INDEX_NONE \/ EndIndex = INDEX_NONE
             THEN /\ SessionState' = [SessionState EXCEPT !.bIsRecording = FALSE]
                  /\ HideRecordingNotification(FALSE)
                  /\ Calls' = [log EXCEPT !.outcome = "invalid"]
                  /\ UNCHANGED <<FilterChain, pc, Locals>>
             ELSE IF EndIndex < StartIndex
             THEN /\ SessionState' = [SessionState EXCEPT !.bIsRecording = FALSE]
                  /\ HideRecordingNotification(TRUE)
                  /\ Calls' = [log EXCEPT !.outcome = "empty"]
                  /\ UNCHANGED <<FilterChain, pc, Locals>>
             ELSE /\ SessionState' = [SessionState EXCEPT !.bIsRecording = FALSE]
                  /\ FilterChain' = CollectAndApplyFilters(FilterChain)
                  /\ pc' = "rewind"
                  /\ Locals' = [StartIndex |-> StartIndex, EndIndex |-> EndIndex,
                                QueueLength |-> GetQueueLength, i |-> 0, TxIndex |-> 0]
                  /\ Calls' = [log EXCEPT !.outcome = "running"]
                  /\ UNCHANGED <<ActiveNotification, CompletionState>>

\* Mutant: the failed undo is ignored and the replay starts all the same.
RewindFailed_Continue(fault) ==
    /\ Calls' = [Calls EXCEPT !.undo = @ + 1, !.undoFailed = TRUE,
                              !.faults = IF fault THEN @ + 1 ELSE @]
    /\ pc' = "replay"
    /\ Locals' = [Locals EXCEPT !.TxIndex = 0]
    /\ SessionState' = [SessionState EXCEPT !.CapturedDiffs = <<>>]
    /\ UNCHANGED <<Scene, UndoCount, ActiveNotification, CompletionState>>

\* Mutant: the loop of the rewind does not leave on a failed undo and does
\* not advance either.
RewindFailed_Retry(fault) ==
    UNCHANGED <<Calls, pc, Locals, Scene, UndoCount, SessionState,
                ActiveNotification, CompletionState>>

\* UndoTransaction returned false: RewindEditorTransactions returns false,
\* CollectDiffsAndDisplay returns and StopTeachingSession ends.
RewindFailed(fault) ==
    /\ Calls' = [Calls EXCEPT !.undo = @ + 1, !.undoFailed = TRUE,
                              !.outcome = "fatal",
                              !.faults = IF fault THEN @ + 1 ELSE @]
    /\ HideRecordingNotification(TRUE)
    /\ pc' = "idle"
    /\ Locals' = NoLocals
    /\ UNCHANGED <<Scene, UndoCount, SessionState>>

\* One iteration of the loop of RewindEditorTransactions; fault: the host
\* refuses the undo although a transaction is applied.
RewindEditorTransactions(fault) ==
    IF CanUndo /\ ~fault
    THEN /\ Scene' = ApplyTransaction(Scene, UndoBuffer[Len(UndoBuffer) - UndoCount])
         /\ UndoCount' = UndoCount + 1
         /\ Calls' = [Calls EXCEPT !.undo = @ + 1]
         /\ IF Locals.i + 1 < Locals.QueueLength
            THEN /\ Locals' = [Locals EXCEPT !.i = @ + 1]
                 /\ UNCHANGED <<pc, SessionState>>
            ELSE /\ Locals' = [Locals EXCEPT !.i = @ + 1, !.TxIndex = 0]
                 /\ pc' = "replay"
                 /\ SessionState' = [SessionState EXCEPT !.CapturedDiffs = <<>>]
         /\ UNCHANGED <<ActiveNotification, CompletionState>>
    ELSE RewindFailed(fault)

RewindStep ==
    /\ pc = "rewind"
    /\ \E fault \in BOOLEAN :
         /\ fault => Calls.faults < MaxFaults
         /\ RewindEditorTransactions(fault)
    /\ UNCHANGED <<Editor, UndoBuffer, ManagerValid, FilterChain, Starts>>

\* Mutant: the first ordinal of the range is not captured.
ShouldCapture_Strict(TxIndex, StartIndex) == TxIndex > StartIndex

ShouldCapture(TxIndex, StartIndex) == TxIndex >= StartIndex

\* Number of host failures injected into one iteration of the replay loop.
FaultCount(missing, fault, outBefore, outAfter) ==
    (IF missing THEN 1 ELSE 0) + (IF fault THEN 1 ELSE 0)
    + Cardinality({o \in DOMAIN outBefore : outBefore[o] # "ok"})
    + Cardinality({o \in DOMAIN outAfter : outAfter[o] # "ok"})

\* One iteration of the replay loop of CollectDiffsAndDisplay.
ReplayIteration(missing, fault, outBefore, outAfter) ==
    LET TxIndex == Locals.TxIndex
        next == [Locals EXCEPT !.TxIndex = @ + 1]
        nfaults == FaultCount(missing, fault, outBefore, outAfter)
        seen == [Calls EXCEPT !.visited = Append(@, TxIndex), !.faults = @ + nfaults]
    IN  IF missing \/ TxIndex >= Len(UndoBuffer)
        THEN /\ Calls' = [seen EXCEPT !.missing = @ \cup {TxIndex}]
             /\ Locals' = next
             /\ UNCHANGED <<Scene, UndoCount, SessionState>>
        ELSE LET Transaction == UndoBuffer[TxIndex + 1]
                 bShouldCapture == ShouldCapture(TxIndex, Locals.StartIndex)
                 TransactionObjects == GetTransactionObjects(Transaction)
                 SnapshotsBefore == DuplicateSnapshots(Scene, TransactionObjects, outBefore)
                 redoOk == CanRedo /\ ~fault
                 redone == [ordinal |-> TxIndex, cursor |-> RedoCursor, ok |-> redoOk]
             IN  IF ~redoOk
                 THEN /\ Calls' = [seen EXCEPT !.snap = @ + 1, !.release = @ + 1,
                                               !.standalone = @ + UnreleasedClones(
                                                   Scene, TransactionObjects, outBefore),
                                               !.redo = Append(@, redone)]
                      /\ Locals' = next
                      /\ UNCHANGED <<Scene, UndoCount, SessionState>>
                 ELSE LET after == ApplyTransaction(Scene, UndoBuffer[RedoCursor + 1])
                          SnapshotsAfter == DuplicateSnapshots(after, TransactionObjects, outAfter)
                          Diff == BuildDiffFromSnapshots(TxIndex, Transaction,
                                                         SnapshotsBefore, SnapshotsAfter)
                      IN  /\ Scene' = after
                          /\ UndoCount' = UndoCount - 1
                          /\ SessionState' =
                                IF bShouldCapture /\ TransactionHasDifferences(Diff)
                                THEN [SessionState EXCEPT !.CapturedDiffs = Append(@, Diff)]
                                ELSE SessionState
                          /\ Calls' = [seen EXCEPT
                                         !.snap = @ + 2, !.release = @ + 2,
                                         !.standalone = @
                                            + UnreleasedClones(Scene, TransactionObjects, outBefore)
                                            + UnreleasedClones(after, TransactionObjects, outAfter),
                                         !.redo = Append(@, redone),
                                         !.built = IF bShouldCapture
                                                   THEN Append(@, TxIndex) ELSE @]
                          /\ Locals' = next

\* HostFaults: whether the host may refuse; Outcomes: what a clone may yield.
ReplayWith(HostFaults, Outcomes) ==
    /\ pc = "replay"
    /\ Locals.TxIndex <= Locals.EndIndex
    /\ \E missing \in HostFaults, fault \in HostFaults :
         LET touched == IF Locals.TxIndex < Len(UndoBuffer)
                        THEN {UndoBuffer[Locals.TxIndex + 1].ops[k].obj :
                                 k \in 1..Len(UndoBuffer[Locals.TxIndex + 1].ops)}
                        ELSE {}
         IN  \E outBefore \in [touched -> Outcomes],
                outAfter \in [touched -> Outcomes] :
                /\ FaultCount(missing, fault, outBefore, outAfter) + Calls.faults <= MaxFaults
                /\ ReplayIteration(missing, fault, outBefore, outAfter)
    /\ UNCHANGED <<Editor, UndoBuffer, ManagerValid, FilterChain,
                   ActiveNotification, CompletionState, Starts, pc>>

ReplayStep == ReplayWith(BOOLEAN, {"ok"})

\* The end of CollectDiffsAndDisplay and of StopTeachingSession: the filter
\* chain, the diff window and the notification.
FinishStop ==
    /\ pc = "replay"
    /\ Locals.TxIndex > Locals.EndIndex
    /\ SessionState' = [SessionState EXCEPT
                           !.CapturedDiffs = ApplyFilters(FilterChain,
                                                          SessionState.CapturedDiffs)]
    /\ Calls' = [Calls EXCEPT !.filter = @ + 1, !.sink = @ + 1,
                              !.outcome = "completed"]
    /\ HideRecordingNotification(TRUE)
    /\ pc' = "idle"
    /\ Locals' = NoLocals
    /\ UNCHANGED <<Editor, UndoBuffer, UndoCount, Scene, ManagerValid, FilterChain,
                   Starts>>

\* Mutant: the new event is put in front of the earlier ones.
RecordCustomEvent_Prepend(EventName, Payload, Timestamp) ==
    IF ~SessionState.bIsRecording
    THEN UNCHANGED SessionState
    ELSE SessionState' = [SessionState EXCEPT
             !.CustomEvents = <<[EventName |-> EventName, Payload |-> Payload,
                                 Timestamp |-> Timestamp]>> \o @]

RecordCustomEvent(EventName, Payload, Timestamp) ==
    IF ~SessionState.bIsRecording
    THEN UNCHANGED SessionState
    ELSE SessionState' = [SessionState EXCEPT
             !.CustomEvents = Append(@, [EventName |-> EventName, Payload |-> Payload,
                                          Timestamp |-> Timestamp])]

(***************************************************************************)
(* Calls on the manager obtained from GetTeachingSessionManager().         *)
(***************************************************************************)
ManagerStart ==
    /\ pc = "idle"
    /\ ManagerValid
    /\ Starts < MaxSessions
    /\ StartTeachingSession
    /\ UNCHANGED <<hostVars, ManagerValid, pc, Locals>>

ManagerStop ==
    /\ pc = "idle"
    /\ ManagerValid
    /\ StopTeachingSession
    /\ UNCHANGED <<hostVars, ManagerValid, Starts>>

\* RecordCustomEvent called with a name of Names while fewer than Limit
\* events are stored.
ManagerRecordFrom(Names, Limit) ==
    /\ pc = "idle"
    /\ ManagerValid
    /\ Len(SessionState.CustomEvents) < Limit
    /\ \E n \in Names, p \in Payloads, t \in Timestamps : RecordCustomEvent(n, p, t)
    /\ Calls' = [NoCalls EXCEPT !.op = "record"]
    /\ UNCHANGED <<hostVars, ManagerValid, FilterChain, ActiveNotification,
                   CompletionState, Starts, pc, Locals>>

ManagerRecord == ManagerRecordFrom(EventNames, MaxEvents)

(***************************************************************************)
(* FMCPServerModule: the console commands and the callable operations.     *)
(***************************************************************************)
ModuleStartTeachingSession ==
    /\ pc = "idle"
    /\ Starts < MaxSessions
    /\ ManagerValid' = TRUE
    /\ IF ~SessionState.bIsRecording
       THEN StartTeachingSession
       ELSE /\ UNCHANGED <<managerVars, Starts>>
            /\ Calls' = [NoCalls EXCEPT !.op = "start", !.outcome = "already-active"]
    /\ UNCHANGED <<hostVars, pc, Locals>>

ModuleStopTeachingSession ==
    /\ pc = "idle"
    /\ IF ~ManagerValid
       THEN /\ UNCHANGED <<managerVars, pc, Locals>>
            /\ Calls' = [NoCalls EXCEPT !.op = "stop", !.outcome = "no-manager"]
       ELSE IF SessionState.bIsRecording
       THEN StopTeachingSession
       ELSE /\ UNCHANGED <<managerVars, pc, Locals>>
            /\ Calls' = [NoCalls EXCEPT !.op = "stop", !.outcome = "not-running"]
    /\ UNCHANGED <<hostVars, ManagerValid, Starts>>

ModuleRecordTeachingEventFrom(Names, Limit) ==
    /\ pc = "idle"
    /\ ManagerValid' = TRUE
    /\ Len(SessionState.CustomEvents) < Limit
    /\ IF SessionState.bIsRecording
       THEN \E n \in Names, p \in Payloads, t \in Timestamps : RecordCustomEvent(n, p, t)
       ELSE UNCHANGED SessionState
    /\ Calls' = [NoCalls EXCEPT !.op = "record"]
    /\ UNCHANGED <<hostVars, FilterChain, ActiveNotification, CompletionState,
                   Starts, pc, Locals>>

ModuleRecordTeachingEvent == ModuleRecordTeachingEventFrom(EventNames, MaxEvents)

Next ==
    \/ \E tx \in TxKinds : Edit(tx)
    \/ UserUndo
    \/ UserRedo
    \/ \E e \in {"null", "notrans", "ok"} : EditorChange(e)
    \/ ManagerStart
    \/ ManagerStop
    \/ ManagerRecord
    \/ RewindStep
    \/ ReplayStep
    \/ FinishStop
    \/ ModuleStartTeachingSession
    \/ ModuleStopTeachingSession
    \/ ModuleRecordTeachingEvent

Spec == Init /\ [][Next]_vars

(***************************************************************************)
(* Sessions over edits in which StaticDuplicateObjectEx may fail for an    *)
(* object: null, invalid or wrong-class result.                            *)
(***************************************************************************)
ReplayClones == ReplayWith(BOOLEAN, CloneOutcomes)

NextClones ==
    \/ \E tx \in TxKinds : Edit(tx)
    \/ ModuleStartTeachingSession
    \/ ManagerStart
    \/ ManagerStop
    \/ RewindStep
    \/ ReplayClones
    \/ FinishStop

SpecClones == Init /\ [][NextClones]_vars

(***************************************************************************)
(* A stop runs synchronously on the game thread: once StopTeachingSession  *)
(* is entered, each undo, each iteration of the replay loop and the end of *)
(* the call follow as soon as the host call before them has returned.      *)
(***************************************************************************)
NextStop ==
    \/ \E tx \in TxKinds : Edit(tx)
    \/ UserUndo
    \/ ModuleStartTeachingSession
    \/ ManagerStop
    \/ RewindStep
    \/ ReplayStep
    \/ FinishStop

\* The replay loop moves to its next ordinal: the loop test of
\* CollectDiffsAndDisplay holds and the iteration, whose host calls return,
\* comes to its end.  These are the steps of ReplayStep.
ReplayProceeds ==
    /\ pc = "replay"
    /\ Locals.TxIndex <= Locals.EndIndex
    /\ Locals' = [Locals EXCEPT !.TxIndex = @ + 1]

\* The loop test fails and the stop runs to its return.  These are the steps
\* of FinishStop.
FinishProceeds ==
    /\ pc = "replay"
    /\ Locals.TxIndex > Locals.EndIndex
    /\ pc' = "idle"

\* Every host call returns: the rewind loop, the replay loop and the closing
\* step each go on when they can.
SpecStop ==
    /\ Init
    /\ [][NextStop]_vars
    /\ WF_vars(RewindStep)
    /\ WF_Locals(ReplayProceeds)
    /\ WF_pc(FinishProceeds)

(***************************************************************************)
(* The session calls alone, on an editor whose history does not change,    *)
(* with a longer event log and distinguishable events.                     *)
(***************************************************************************)
MaxEventLog == 3

EventLogNames == {"e1", "e2"}

RecordEvents == ManagerRecordFrom(EventLogNames, MaxEventLog)

ModuleRecordEvents == ModuleRecordTeachingEventFrom(EventLogNames, MaxEventLog)

NextEvents ==
    \/ ManagerStart
    \/ ManagerStop
    \/ ModuleStartTeachingSession
    \/ ModuleStopTeachingSession
    \/ RecordEvents
    \/ ModuleRecordEvents

SpecEvents == Init /\ [][NextEvents]_vars

(***************************************************************************)
(* The filter chain on its own: ApplyFilters applied to diff lists and     *)
(* chains drawn from bounded sets, and IsBlueprintEditable applied to      *)
(* fields carrying every combination of the property flags it reads.       *)
(***************************************************************************)
MaxProps == 2
MaxDiffs == 2
MaxChain == 2

TYPE_Blueprint == STR_Blueprint
TYPE_StaticMeshActor == ClassNameOf("act")
TYPE_Material == ClassNameOf("mat")
TYPE_Door_C == <<"B","P","_","D","o","o","r","_","C">>
TYPE_AbilityBlueprint == <<"A","b","i","l","i","t","y","B","l","u","e","p","r","i","n","t">>
PATH_Asset == PathNameOf("bp")
PATH_Asset_C == <<"B","P","_","D","o","o","r",".","B","P","_","D","o","o","r","_","C">>
PATH_Cube == PathNameOf("act")
PATH_Gone == <<"M","a","p",".","G","o","n","e">>
PATH_Mat == PathNameOf("mat")
PATH_Ability_C == <<"G","A","_","D","a","s","h","_","C">>

\* ObjectClass and ObjectPath of the object diffs given to the filters.
TypePaths ==
    { [cls |-> TYPE_Blueprint, path |-> PATH_Asset],
      [cls |-> TYPE_Blueprint, path |-> PATH_Asset_C],
      [cls |-> TYPE_StaticMeshActor, path |-> PATH_Cube],
      [cls |-> TYPE_StaticMeshActor, path |-> PATH_Gone],
      [cls |-> TYPE_Material, path |-> PATH_Mat],
      [cls |-> TYPE_Door_C, path |-> PATH_Gone],
      [cls |-> TYPE_AbilityBlueprint, path |-> PATH_Ability_C] }

PropertyDiffNames == {"Loc", "Cache", "_Tmp"}

PropertyDiffInput(n) ==
    [PropertyName |-> n, PropertyPath |-> NameToString(n),
     OldValue |-> <<"0">>, NewValue |-> <<"1">>,
     bIsPropertyAdded |-> FALSE, bIsPropertyRemoved |-> FALSE]

SeqsUpTo(S, n) == UNION {[1..k -> S] : k \in 0..n}

PropertyDiffLists ==
    {[i \in 1..Len(ns) |-> PropertyDiffInput(ns[i])] : ns \in SeqsUpTo(PropertyDiffNames, MaxProps)}

ObjectDiffInputs ==
    { [ObjectPath |-> tp.path, ObjectClass |-> tp.cls,
       bIsObjectAdded |-> fl[1], bIsObjectRemoved |-> fl[2], PropertyDiffs |-> pds] :
         tp \in TypePaths,
         fl \in {<<FALSE, FALSE>>, <<TRUE, FALSE>>, <<FALSE, TRUE>>},
         pds \in PropertyDiffLists }

TxOf(ods) ==
    [TransactionIndex |-> 0, TransactionTitle |-> "Input",
     TransactionContext |-> "Editor", ObjectDiffs |-> ods]

ObjectDiffOf(cls, path, removed, names) ==
    [ObjectPath |-> path, ObjectClass |-> cls,
     bIsObjectAdded |-> FALSE, bIsObjectRemoved |-> removed,
     PropertyDiffs |-> [i \in 1..Len(names) |-> PropertyDiffInput(names[i])]]

\* Transactions touching several objects, as the replay loop records them.
TransactionInputs ==
    { TxOf(<<>>),
      TxOf(<<ObjectDiffOf(TYPE_Blueprint, PATH_Asset, FALSE, <<"Loc">>)>>),
      TxOf(<<ObjectDiffOf(TYPE_StaticMeshActor, PATH_Cube, FALSE, <<"Loc", "Cache">>),
             ObjectDiffOf(TYPE_Blueprint, PATH_Asset, FALSE, <<"Loc">>)>>),
      TxOf(<<ObjectDiffOf(TYPE_StaticMeshActor, PATH_Cube, FALSE, <<"Cache">>),
             ObjectDiffOf(TYPE_Material, PATH_Mat, TRUE, <<>>)>>),
      TxOf(<<ObjectDiffOf(TYPE_StaticMeshActor, PATH_Cube, FALSE, <<"Cache">>)>>),
      TxOf(<<ObjectDiffOf(TYPE_Door_C, PATH_Gone, FALSE, <<"_Tmp", "Loc">>),
             ObjectDiffOf(TYPE_Material, PATH_Mat, FALSE, <<>>)>>) }

DiffListInputs ==
    {<<TxOf(<<od>>)>> : od \in ObjectDiffInputs} \cup SeqsUpTo(TransactionInputs, MaxDiffs)

FilterKinds ==
    {BlueprintObjectFilter, BlueprintVisiblePropertyFilter, "FMCPTeachingDataFilterBase"}

ChainInputs == SeqsUpTo(FilterKinds, MaxChain)

PropertyFlags ==
    {"CPF_Edit", "CPF_BlueprintVisible", "CPF_EditConst", "CPF_BlueprintReadOnly",
     "CPF_DisableEditOnInstance", "CPF_DisableEditOnTemplate"}

NoProperty == [name |-> "none", kind |-> "IntProperty", flags |-> {}]

\* Locals of the call: the field given to IsBlueprintEditable, and the list
\* that the first ApplyFilters was given.
FilterLocals(Property, InOutDiffs) == [Property |-> Property, InOutDiffs |-> InOutDiffs]

InitFilters ==
    /\ Editor = "ok"
    /\ UndoBuffer = <<>>
    /\ UndoCount = 0
    /\ Scene = [o \in Objects |-> FreshObject(o)]
    /\ ManagerValid = TRUE
    /\ ActiveNotification = FALSE
    /\ CompletionState = "none"
    /\ Starts = 0
    /\ pc = "idle"
    /\ Calls = NoCalls
    /\ \/ /\ \E D \in DiffListInputs :
                SessionState = [FreshSessionState EXCEPT !.CapturedDiffs = D]
          /\ FilterChain \in ChainInputs
          /\ Locals = FilterLocals(NoProperty, <<>>)
       \/ /\ SessionState = FreshSessionState
          /\ FilterChain = <<>>
          /\ \E F \in SUBSET PropertyFlags :
                Locals = FilterLocals([name |-> "Field", kind |-> "IntProperty", flags |-> F], <<>>)

\* FilterChain.ApplyFilters(SessionState.CapturedDiffs), at most twice in a row.
ApplyChain ==
    /\ Locals.Property = NoProperty
    /\ Calls.filter < 2
    /\ SessionState' = [SessionState EXCEPT
                           !.CapturedDiffs = ApplyFilters(FilterChain, @)]
    /\ Calls' = [Calls EXCEPT !.op = "ApplyFilters", !.filter = @ + 1]
    /\ Locals' = IF Calls.filter = 0
                 THEN FilterLocals(NoProperty, SessionState.CapturedDiffs)
                 ELSE Locals
    /\ UNCHANGED <<Editor, UndoBuffer, UndoCount, Scene, ManagerValid, FilterChain,
                   ActiveNotification, CompletionState, Starts, pc>>

\* UMCPObjectInformDumpLibrary::IsBlueprintEditable(Property).
CheckEditable ==
    /\ Locals.Property # NoProperty
    /\ Calls.op = "none"
    /\ Calls' = [Calls EXCEPT !.op = "IsBlueprintEditable",
                              !.outcome = IF IsBlueprintEditable(Locals.Property)
                                          THEN "true" ELSE "false"]
    /\ UNCHANGED <<Editor, UndoBuffer, UndoCount, Scene, ManagerValid, SessionState,
                   FilterChain, ActiveNotification, CompletionState, Starts, pc, Locals>>

NextFilters == ApplyChain \/ CheckEditable

SpecFilters == InitFilters /\ [][NextFilters]_vars

(***************************************************************************)
(* One replay iteration in isolation: snapshot the objects of a            *)
(* transaction, apply it, snapshot again and build the diff of the two     *)
(* maps (CollectDiffsAndDisplay, body of the loop).                        *)
(***************************************************************************)
\* What a transaction does to each object: nothing recorded, recorded but
\* unchanged, fields toggled, or the object created or destroyed.
ObjectEdits(o) ==
    CASE o = "act" -> {<<>>, <<"touch">>, <<"Loc">>, <<"Cache">>, <<"Loc", "Cache">>, <<"alive">>}
      [] o = "bp" -> {<<>>, <<"touch">>, <<"Desc">>, <<"alive">>}
      [] OTHER -> {<<>>, <<"touch">>, <<"alive">>}

OpsOn(o, edits) == [i \in 1..Len(edits) |-> [obj |-> o, op |-> edits[i]]]

DifferTransactions ==
    { Tx("Edit", OpsOn("act", a) \o OpsOn("bp", b) \o OpsOn("mat", m)) :
        a \in ObjectEdits("act"), b \in ObjectEdits("bp"), m \in ObjectEdits("mat") }

DifferScenes ==
    { [o \in Objects |-> [FreshObject(o) EXCEPT !.alive = o \in live]] : live \in SUBSET Objects }

DifferOutcomes == [Objects -> {"ok", "null"}]

DifferLocals(outBefore, outAfter, Before, After) ==
    [outBefore |-> outBefore, outAfter |-> outAfter, Before |-> Before, After |-> After]

InitDiffer ==
    /\ Editor = "ok"
    /\ UndoBuffer \in {<<tx>> : tx \in DifferTransactions}
    /\ UndoCount = 1
    /\ Scene \in DifferScenes
    /\ ManagerValid = TRUE
    /\ SessionState = FreshSessionState
    /\ FilterChain = <<>>
    /\ ActiveNotification = FALSE
    /\ CompletionState = "none"
    /\ Starts = 0
    /\ pc = "idle"
    /\ Calls = NoCalls
    /\ \E outBefore \in DifferOutcomes, outAfter \in DifferOutcomes :
          Locals = DifferLocals(outBefore, outAfter, <<>>, <<>>)

\* DuplicateSnapshots, Redo, DuplicateSnapshots, BuildDiffFromSnapshots.
BuildDiff ==
    /\ Calls.op = "none"
    /\ LET Transaction == UndoBuffer[1]
           TransactionObjects == GetTransactionObjects(Transaction)
           SnapshotsBefore == DuplicateSnapshots(Scene, TransactionObjects, Locals.outBefore)
           after == ApplyTransaction(Scene, Transaction)
           SnapshotsAfter == DuplicateSnapshots(after, TransactionObjects, Locals.outAfter)
       IN  /\ Scene' = after
           /\ UndoCount' = 0
           /\ SessionState' = [SessionState EXCEPT !.CapturedDiffs =
                                  <<BuildDiffFromSnapshots(0, Transaction,
                                                           SnapshotsBefore, SnapshotsAfter)>>]
           /\ Locals' = DifferLocals(Locals.outBefore, Locals.outAfter,
                                     SnapshotsBefore, SnapshotsAfter)
           /\ Calls' = [Calls EXCEPT !.op = "BuildDiffFromSnapshots",
                                     !.snap = 2, !.built = <<0>>]
    /\ UNCHANGED <<Editor, UndoBuffer, ManagerValid, FilterChain,
                   ActiveNotification, CompletionState, Starts, pc>>

NextDiffer == BuildDiff

SpecDiffer == InitDiffer /\ [][NextDiffer]_vars

(***************************************************************************)
(* CollectPropertyDiffs in isolation, on pairs of snapshots whose classes  *)
(* declare an integer field and a reference field of each pointer kind.    *)
(***************************************************************************)
FieldLoc == [name |-> "Loc", kind |-> "IntProperty", flags |-> {"CPF_Edit"}]

FieldRef(kind) == [name |-> "Ref", kind |-> kind, flags |-> {"CPF_Edit"}]

ReferenceKinds == {"ObjectProperty", "WeakObjectProperty", "SoftObjectProperty"}

\* TFieldIterator<FProperty> of the sample classes.
SnapshotLayouts ==
    {<<>>, <<FieldLoc>>} \cup {<<FieldRef(k)>> : k \in ReferenceKinds}
                         \cup {<<FieldLoc, FieldRef(k)>> : k \in ReferenceKinds}

\* Values of a reference field: null, or an object known by path and class.
NullReference == [null |-> TRUE, path |-> "", cls |-> ""]

ReferenceValues ==
    {NullReference,
     [null |-> FALSE, path |-> "Map.A1", cls |-> "A"],
     [null |-> FALSE, path |-> "Map.A2", cls |-> "A"],
     [null |-> FALSE, path |-> "Map.B1", cls |-> "B"]}

SnapshotInputs ==
    { [props |-> layout, vals |-> [n \in {"Loc", "Ref"} |-> IF n = "Loc" THEN loc ELSE ref]] :
        layout \in SnapshotLayouts, loc \in {0, 1}, ref \in ReferenceValues }

SnapshotLocals(OldObject, NewObject, OutDiffs) ==
    [OldObject |-> OldObject, NewObject |-> NewObject, OutDiffs |-> OutDiffs]

InitSnapshots ==
    /\ Editor = "ok"
    /\ UndoBuffer = <<Tx("Edit", <<[obj |-> "act", op |-> "touch"]>>)>>
    /\ UndoCount = 0
    /\ Scene = [o \in Objects |-> FreshObject(o)]
    /\ ManagerValid = TRUE
    /\ SessionState = FreshSessionState
    /\ FilterChain = <<>>
    /\ ActiveNotification = FALSE
    /\ CompletionState = "none"
    /\ Starts = 0
    /\ pc = "idle"
    /\ Calls = NoCalls
    /\ \E OldObject \in SnapshotInputs, NewObject \in SnapshotInputs :
          Locals = SnapshotLocals(OldObject, NewObject, <<>>)

\* CollectPropertyDiffs(OldObject, NewObject, OutDiffs).
CollectDiffs ==
    /\ Calls.op = "none"
    /\ Locals' = [Locals EXCEPT
                     !.OutDiffs = CollectPropertyDiffs(Locals.OldObject, Locals.NewObject)]
    /\ Calls' = [Calls EXCEPT !.op = "CollectPropertyDiffs"]
    /\ UNCHANGED <<Editor, UndoBuffer, UndoCount, Scene, ManagerValid, SessionState,
                   FilterChain, ActiveNotification, CompletionState, Starts, pc>>

\* BuildDiffFromSnapshots for a transaction that touched one object, of which
\* OldObject and NewObject are the clones taken before and after the redo.
BuildTouched ==
    /\ Calls.op = "none"
    /\ SessionState' = [SessionState EXCEPT !.CapturedDiffs =
                           <<BuildDiffFromSnapshots(0, UndoBuffer[1],
                                <<[key |-> "act", clone |-> Locals.OldObject]>>,
                                <<[key |-> "act", clone |-> Locals.NewObject]>>)>>]
    /\ Calls' = [Calls EXCEPT !.op = "BuildDiffFromSnapshots", !.built = <<0>>]
    /\ UNCHANGED <<Editor, UndoBuffer, UndoCount, Scene, ManagerValid, FilterChain,
                   ActiveNotification, CompletionState, Starts, pc, Locals>>

NextSnapshots == CollectDiffs \/ BuildTouched

SpecSnapshots == InitSnapshots /\ [][NextSnapshots]_vars

(***************************************************************************)
(* Log capture device (FMCPLogCaptureDevice, MCPServer.cpp).  Several      *)
(* threads call into the one device of the module.  Here Scene holds the   *)
(* device, pc the position of each thread inside its running call, Locals  *)
(* the locals of that call and Calls a record of the calls made.  A call   *)
(* advances one statement at a time; FString operations that touch the     *)
(* buffer advance one piece of text at a time.                             *)
(***************************************************************************)
MaxLogCalls == 5

Threads == {"game", "worker"}

\* FMCPLogCaptureDevice(): bEnabled(false), empty buffer, mutex free, and not
\* yet added to GLog.
LogDevice(bEnabled, LogMutex, CapturedLogs, registered) ==
    [bEnabled |-> bEnabled, LogMutex |-> LogMutex,
     CapturedLogs |-> CapturedLogs, registered |-> registered]

NoFrame == [LogMessage |-> <<>>, i |-> 0, Result |-> <<>>, bInEnabled |-> FALSE]

\* started: calls begun so far; lines: the messages whose Serialize took the
\* mutex since the last clear; disabled: SetEnabled(false) has returned, and
\* no SetEnabled(true) has been called since or was running when it returned.
NoLogCalls == [op |-> "none", started |-> 0, lines |-> <<>>, disabled |-> FALSE]

\* FString::Printf("[%s] %s: %s\n", ...): the text of the message and its
\* line end.
FormatLogMessage(V) == <<V, "\n">>

\* Mutant: the scope lock does not wait for the mutex.
LockAvailable_Always(LogMutex) == TRUE

\* FScopeLock Lock(&LogMutex) can be taken.
LockAvailable(LogMutex) == LogMutex = "free"

InitLog ==
    /\ Editor = "ok"
    /\ UndoBuffer = <<>>
    /\ UndoCount = 0
    /\ Scene = LogDevice(FALSE, "free", <<>>, FALSE)
    /\ ManagerValid = FALSE
    /\ SessionState = FreshSessionState
    /\ FilterChain = <<>>
    /\ ActiveNotification = FALSE
    /\ CompletionState = "none"
    /\ Starts = 0
    /\ pc = [t \in Threads |-> "idle"]
    /\ Locals = [t \in Threads |-> NoFrame]
    /\ Calls = NoLogCalls

logFrame == <<Editor, UndoBuffer, UndoCount, ManagerValid, SessionState, FilterChain,
              ActiveNotification, CompletionState, Starts>>

\* FScopeLock Lock(&LogMutex) of the call running on thread t.
ScopeLock(t, from, to) ==
    /\ pc[t] = from
    /\ LockAvailable(Scene.LogMutex)
    /\ Scene' = [Scene EXCEPT !.LogMutex = t]
    /\ pc' = [pc EXCEPT ![t] = to]

\* End of the scope of the lock and return of the call.
ScopeUnlock(t, from) ==
    /\ pc[t] = from
    /\ Scene' = [Scene EXCEPT !.LogMutex = "free"]
    /\ pc' = [pc EXCEPT ![t] = "idle"]
    /\ Locals' = [Locals EXCEPT ![t] = NoFrame]

\* Serialize, called by GLog on a thread for a device it holds:
\* if (!bEnabled) return;
SerializeCheck(t) ==
    /\ pc[t] = "idle"
    /\ Scene.registered
    /\ Calls.started < MaxLogCalls
    /\ Calls' = [Calls EXCEPT !.op = "Serialize", !.started = @ + 1]
    /\ IF ~Scene.bEnabled
       THEN UNCHANGED <<pc, Locals>>
       ELSE /\ pc' = [pc EXCEPT ![t] = "Serialize_lock"]
            /\ Locals' = [Locals EXCEPT ![t].LogMessage =
                              FormatLogMessage(ToString(Calls.started + 1))]
    /\ UNCHANGED <<logFrame, Scene>>

SerializeLock(t) ==
    /\ ScopeLock(t, "Serialize_lock", "Serialize_append")
    /\ Calls' = [Calls EXCEPT !.lines = Append(@, Locals[t].LogMessage)]
    /\ UNCHANGED <<logFrame, Locals>>

\* CapturedLogs += LogMessage
SerializeAppend(t) ==
    /\ pc[t] = "Serialize_append"
    /\ Locals[t].i < Len(Locals[t].LogMessage)
    /\ Scene' = [Scene EXCEPT !.CapturedLogs =
                     Append(@, Locals[t].LogMessage[Locals[t].i + 1])]
    /\ Locals' = [Locals EXCEPT ![t].i = @ + 1]
    /\ UNCHANGED <<logFrame, pc, Calls>>

SerializeReturn(t) ==
    /\ Locals[t].i = Len(Locals[t].LogMessage)
    /\ ScopeUnlock(t, "Serialize_append")
    /\ UNCHANGED <<logFrame, Calls>>

GetCapturedLogsCall(t) ==
    /\ pc[t] = "idle"
    /\ Calls.started < MaxLogCalls
    /\ pc' = [pc EXCEPT ![t] = "Get_lock"]
    /\ Calls' = [Calls EXCEPT !.op = "GetCapturedLogs", !.started = @ + 1]
    /\ UNCHANGED <<logFrame, Scene, Locals>>

GetCapturedLogsLock(t) ==
    /\ ScopeLock(t, "Get_lock", "Get_copy")
    /\ UNCHANGED <<logFrame, Locals, Calls>>

\* return CapturedLogs: the copy of the buffer into the result.
GetCapturedLogsCopy(t) ==
    /\ pc[t] = "Get_copy"
    /\ IF Locals[t].i < Len(Scene.CapturedLogs)
       THEN /\ Locals' = [Locals EXCEPT
                             ![t].Result = Append(@, Scene.CapturedLogs[Locals[t].i + 1]),
                             ![t].i = @ + 1]
            /\ pc' = pc
       ELSE /\ pc' = [pc EXCEPT ![t] = "Get_return"]
            /\ Locals' = Locals
    /\ UNCHANGED <<logFrame, Scene, Calls>>

GetCapturedLogsReturn(t) ==
    /\ ScopeUnlock(t, "Get_return")
    /\ UNCHANGED <<logFrame, Calls>>

ClearCapturedLogsCall(t) ==
    /\ pc[t] = "idle"
    /\ Calls.started < MaxLogCalls
    /\ pc' = [pc EXCEPT ![t] = "Clear_lock"]
    /\ Calls' = [Calls EXCEPT !.op = "ClearCapturedLogs", !.started = @ + 1]
    /\ UNCHANGED <<logFrame, Scene, Locals>>

ClearCapturedLogsLock(t) ==
    /\ ScopeLock(t, "Clear_lock", "Clear_empty")
    /\ Calls' = [Calls EXCEPT !.lines = <<>>]
    /\ UNCHANGED <<logFrame, Locals>>

\* CapturedLogs.Empty()
ClearCapturedLogsEmpty(t) ==
    /\ pc[t] = "Clear_empty"
    /\ Scene' = [Scene EXCEPT !.CapturedLogs = <<>>]
    /\ pc' = [pc EXCEPT ![t] = "Clear_return"]
    /\ UNCHANGED <<logFrame, Locals, Calls>>

ClearCapturedLogsReturn(t) ==
    /\ ScopeUnlock(t, "Clear_return")
    /\ UNCHANGED <<logFrame, Calls>>

SetEnabledCall(t, bInEnabled) ==
    /\ pc[t] = "idle"
    /\ Calls.started < MaxLogCalls
    /\ pc' = [pc EXCEPT ![t] = "Set_lock"]
    /\ Locals' = [Locals EXCEPT ![t].bInEnabled = bInEnabled]
    /\ Calls' = [Calls EXCEPT !.op = "SetEnabled", !.started = @ + 1,
                              !.disabled = IF bInEnabled THEN FALSE ELSE @]
    /\ UNCHANGED <<logFrame, Scene>>

SetEnabledLock(t) ==
    /\ ScopeLock(t, "Set_lock", "Set_flag")
    /\ UNCHANGED <<logFrame, Locals, Calls>>

\* if (bEnabled != bInEnabled) bEnabled = bInEnabled;
SetEnabledFlag(t) ==
    /\ pc[t] = "Set_flag"
    /\ IF Scene.bEnabled # Locals[t].bInEnabled
       THEN /\ Scene' = [Scene EXCEPT !.bEnabled = Locals[t].bInEnabled]
            /\ pc' = [pc EXCEPT ![t] = "Set_glog"]
       ELSE /\ Scene' = Scene
            /\ pc' = [pc EXCEPT ![t] = "Set_return"]
    /\ UNCHANGED <<logFrame, Locals, Calls>>

\* GLog->AddOutputDevice(this) or GLog->RemoveOutputDevice(this).
SetEnabledGLog(t) ==
    /\ pc[t] = "Set_glog"
    /\ Scene' = [Scene EXCEPT !.registered = Scene.bEnabled]
    /\ pc' = [pc EXCEPT ![t] = "Set_return"]
    /\ UNCHANGED <<logFrame, Locals, Calls>>

EnablingInProgress ==
    \E u \in Threads :
        /\ pc[u] \in {"Set_lock", "Set_flag", "Set_glog", "Set_return"}
        /\ Locals[u].bInEnabled

SetEnabledReturn(t) ==
    /\ Calls' = [Calls EXCEPT !.disabled =
                    IF Locals[t].bInEnabled \/ EnablingInProgress THEN @ ELSE TRUE]
    /\ ScopeUnlock(t, "Set_return")
    /\ UNCHANGED logFrame

NextLog ==
    \/ \E t \in Threads : SerializeCheck(t)
    \/ \E t \in Threads : SerializeLock(t)
    \/ \E t \in Threads : SerializeAppend(t)
    \/ \E t \in Threads : SerializeReturn(t)
    \/ \E t \in Threads : GetCapturedLogsCall(t)
    \/ \E t \in Threads : GetCapturedLogsLock(t)
    \/ \E t \in Threads : GetCapturedLogsCopy(t)
    \/ \E t \in Threads : GetCapturedLogsReturn(t)
    \/ \E t \in Threads : ClearCapturedLogsCall(t)
    \/ \E t \in Threads : ClearCapturedLogsLock(t)
    \/ \E t \in Threads : ClearCapturedLogsEmpty(t)
    \/ \E t \in Threads : ClearCapturedLogsReturn(t)
    \/ \E t \in Threads, bInEnabled \in BOOLEAN : SetEnabledCall(t, bInEnabled)
    \/ \E t \in Threads : SetEnabledLock(t)
    \/ \E t \in Threads : SetEnabledFlag(t)
    \/ \E t \in Threads : SetEnabledGLog(t)
    \/ \E t \in Threads : SetEnabledReturn(t)

SpecLog == InitLog /\ [][NextLog]_vars

(***************************************************************************)
(* Properties.                                                             *)
(***************************************************************************)
Returned(outcome) == pc = "idle" /\ Calls.op = "stop" /\ Calls.outcome = outcome

\* The most recent stop ran its replay to the end and the host refused nothing.
CleanCapture ==
    /\ Returned("completed")
    /\ ~Calls.undoFailed
    /\ Calls.missing = {}
    /\ \A k \in 1..Len(Calls.redo) : Calls.redo[k].ok

Ascending(lo, hi) == [k \in 1..(hi - lo + 1) |-> lo + k - 1]

\* C1: a session started at baseline B and stopped at stack length L > B
\* with no host failure computes the range [B, L-1], visits the ordinals
\* 0..L-1 once each in ascending order, builds a diff exactly for the
\* ordinals B..L-1, and leaves at most L-B diffs, in ascending index order,
\* all inside the range.
C1_CapturedRange ==
    CleanCapture =>
        LET B == SessionState.QueueLengthAtStart
            L == Len(UndoBuffer)
            D == SessionState.CapturedDiffs
        IN  /\ Calls.StartIndex = B
            /\ Calls.EndIndex = L - 1
            /\ Calls.visited = Ascending(0, L - 1)
            /\ Calls.built = Ascending(B, L - 1)
            /\ \A k \in 1..Len(D) : B <= D[k].TransactionIndex /\ D[k].TransactionIndex <= L - 1
            /\ \A j, k \in 1..Len(D) : j < k => D[j].TransactionIndex < D[k].TransactionIndex
            /\ Len(D) <= L - B

C1_Witness ==
    /\ CleanCapture
    /\ SessionState.QueueLengthAtStart = 1
    /\ Len(UndoBuffer) = 3
    /\ Len(SessionState.CapturedDiffs) = 2

\* C2: whenever no stop is running, every TransactionDiff of the captured
\* list has differences.
C2_TransactionsHaveDifferences ==
    pc = "idle" =>
        \A k \in 1..Len(SessionState.CapturedDiffs) :
            TransactionHasDifferences(SessionState.CapturedDiffs[k])

\* A stop whose filters removed a whole transaction and kept another.
C2_Witness ==
    /\ Returned("completed")
    /\ Len(SessionState.CapturedDiffs) >= 1
    /\ Len(SessionState.CapturedDiffs) < Len(Calls.built)

\* C3: whenever no stop is running, every ObjectDiff inside a captured
\* TransactionDiff has differences.
C3_ObjectsHaveDifferences ==
    pc = "idle" =>
        \A k \in 1..Len(SessionState.CapturedDiffs) :
            \A j \in 1..Len(SessionState.CapturedDiffs[k].ObjectDiffs) :
                ObjectHasDifferences(SessionState.CapturedDiffs[k].ObjectDiffs[j])

\* A stop that kept an object diff with a property change and one of a
\* removed object, after the filters pruned other object diffs.
C3_Witness ==
    /\ Returned("completed")
    /\ \E k \in 1..Len(SessionState.CapturedDiffs) :
         \E j \in 1..Len(SessionState.CapturedDiffs[k].ObjectDiffs) :
            Len(SessionState.CapturedDiffs[k].ObjectDiffs[j].PropertyDiffs) > 0
    /\ \E k \in 1..Len(SessionState.CapturedDiffs) :
         \E j \in 1..Len(SessionState.CapturedDiffs[k].ObjectDiffs) :
            SessionState.CapturedDiffs[k].ObjectDiffs[j].bIsObjectRemoved

\* C4: after a stop that went into the replay, the notification shows
\* success if the replay completed and failure if the rewind failed.
C4_NotificationReflectsReplay ==
    /\ Returned("completed") => CompletionState = "CS_Success"
    /\ Returned("fatal") => CompletionState = "CS_Fail"

\* C5: the step at which an undo of the rewind fails ends the stop: the
\* stack stays where the failed undo found it, the captured list is empty
\* and unchanged, and the call has issued no redo, taken no snapshot, built
\* no diff, applied no filter and not invoked the diff window.
C5_RewindFailureAborts ==
    [][(pc = "rewind" /\ Calls'.undoFailed) =>
          /\ pc' = "idle"
          /\ UNCHANGED <<UndoBuffer, UndoCount, Scene, SessionState>>
          /\ SessionState.CapturedDiffs = <<>>
          /\ Calls'.redo = <<>>
          /\ Calls'.snap = 0
          /\ Calls'.built = <<>>
          /\ Calls'.filter = 0
          /\ Calls'.sink = 0]_vars

\* A rewind that undid one transaction and failed at the next.
C5_Witness ==
    /\ Returned("fatal")
    /\ Calls.undoFailed
    /\ Calls.undo >= 2
    /\ UndoCount >= 1
    /\ UndoCount < Len(UndoBuffer)

InRange(i) == Calls.StartIndex <= i /\ i <= Calls.EndIndex

\* C6: when a redo fails at an ordinal i of the range, the result has no diff
\* with index i, the loop goes on to i+1, and at every other ordinal of the
\* range the redo re-applies that ordinal's own operation.
C6_RedoFailureIsLocal ==
    Returned("completed") =>
        \A k \in 1..Len(Calls.redo) :
            (~Calls.redo[k].ok /\ InRange(Calls.redo[k].ordinal)) =>
                LET i == Calls.redo[k].ordinal
                    D == SessionState.CapturedDiffs
                IN  /\ \A d \in 1..Len(D) : D[d].TransactionIndex # i
                    /\ i < Calls.EndIndex =>
                          \E v \in 1..Len(Calls.visited) : Calls.visited[v] = i + 1
                    /\ \A j \in 1..Len(Calls.redo) :
                          (Calls.redo[j].ordinal # i /\ InRange(Calls.redo[j].ordinal)
                             /\ Calls.redo[j].ok)
                          => Calls.redo[j].cursor = Calls.redo[j].ordinal

\* C7: a stop of a recording session whose baseline equals the stack length
\* leaves the session idle with a success notification and an empty captured
\* list, without any undo, redo, snapshot or diff.
C7_EmptyRangeSucceeds ==
    (/\ pc = "idle"
     /\ Calls.op = "stop"
     /\ Calls.outcome \in {"invalid", "empty", "fatal", "completed"}
     /\ Editor = "ok"
     /\ Calls.StartIndex = Len(UndoBuffer))
    => /\ ~SessionState.bIsRecording
       /\ CompletionState = "CS_Success"
       /\ SessionState.CapturedDiffs = <<>>
       /\ Calls.undo = 0
       /\ Calls.redo = <<>>
       /\ Calls.snap = 0
       /\ Calls.built = <<>>

StartStep == ManagerStart \/ (ModuleStartTeachingSession /\ ~SessionState.bIsRecording)

StopStep == ManagerStop \/ ModuleStopTeachingSession

\* C8: a start issued while the editor or its transaction buffer is missing
\* changes neither the session state nor the filter chain.
C8_StartWithoutHistoryIsNoOp ==
    [][(StartStep /\ Editor # "ok") => UNCHANGED <<SessionState, FilterChain>>]_vars

\* C9: a start issued while the transaction buffer is available leaves the
\* session recording, with the stack length as baseline and empty event and
\* diff lists; and no step other than a start changes the state of a session
\* that is not recording.
C9_StartResetsSession ==
    [][/\ (StartStep /\ Editor = "ok") =>
             /\ SessionState'.bIsRecording
             /\ SessionState'.QueueLengthAtStart = Len(UndoBuffer)
             /\ SessionState'.CustomEvents = <<>>
             /\ SessionState'.CapturedDiffs = <<>>
       /\ (pc = "idle" /\ ~SessionState.bIsRecording /\ ~StartStep) =>
             UNCHANGED SessionState]_vars

\* A second session just started over a history of two transactions.
C9_Witness ==
    /\ Starts = 2
    /\ Calls.op = "start"
    /\ Calls.outcome = "recording"
    /\ SessionState.bIsRecording
    /\ SessionState.QueueLengthAtStart = 2
    /\ SessionState.CapturedDiffs = <<>>

\* C10: a stop issued while the session is not recording, on the manager or
\* through the module, changes nothing of the session, the filter chain, the
\* notification and the host history.
C10_StopWhenIdleIsNoOp ==
    [][(StopStep /\ ~SessionState.bIsRecording) =>
          UNCHANGED <<SessionState, FilterChain, ActiveNotification, CompletionState,
                      Editor, UndoBuffer, UndoCount, Scene, pc, Locals>>]_vars

\* A stop refused after a finished session that left diffs behind.
C10_Witness ==
    /\ Returned("inactive")
    /\ Len(SessionState.CapturedDiffs) >= 1
    /\ Len(FilterChain) = 2
    /\ CompletionState = "CS_Success"

\* C11: a stop of a recording session whose baseline is unset, or issued
\* while the transaction buffer is missing, ends in that step: the session
\* is idle and no longer recording, the notification shows failure, the host
\* history is untouched and the captured list is unchanged and empty.
C11_InvalidRangeAborts ==
    [][(StopStep /\ SessionState.bIsRecording
          /\ (SessionState.QueueLengthAtStart = INDEX_NONE \/ GetTransBuffer = "nullptr")) =>
          /\ pc' = "idle"
          /\ ~SessionState'.bIsRecording
          /\ CompletionState' = "CS_Fail"
          /\ ~ActiveNotification'
          /\ UNCHANGED <<UndoBuffer, UndoCount, Scene>>
          /\ SessionState'.CapturedDiffs = SessionState.CapturedDiffs
          /\ SessionState'.CapturedDiffs = <<>>
          /\ Calls'.undo = 0
          /\ Calls'.redo = <<>>
          /\ Calls'.built = <<>>]_vars

\* A session with a set baseline stopped after the transaction buffer went away.
C11_Witness ==
    /\ Returned("invalid")
    /\ Calls.StartIndex >= 1
    /\ Calls.EndIndex = INDEX_NONE
    /\ GetTransBuffer = "nullptr"
    /\ CompletionState = "CS_Fail"
    /\ ~SessionState.bIsRecording

RecordStep == RecordEvents \/ ModuleRecordEvents

\* C12: a RecordCustomEvent call, on the manager or through the module,
\* changes nothing of the session when it is not recording; when it is
\* recording the event list grows by one event at its end, the earlier
\* events stay as they were, and no other session field, the filter chain,
\* the notification or the host history changes.
C12_RecordAppendsOneEvent ==
    [][RecordStep =>
          /\ UNCHANGED <<FilterChain, ActiveNotification, CompletionState,
                         Editor, UndoBuffer, UndoCount, Scene, pc>>
          /\ IF ~SessionState.bIsRecording
             THEN UNCHANGED SessionState
             ELSE LET E == SessionState.CustomEvents
                      E2 == SessionState'.CustomEvents
                  IN  /\ Len(E2) = Len(E) + 1
                      /\ SubSeq(E2, 1, Len(E)) = E
                      /\ E2[Len(E2)].EventName \in EventLogNames
                      /\ E2[Len(E2)].Payload \in Payloads
                      /\ SessionState' = [SessionState EXCEPT !.CustomEvents = E2]]_vars

\* A recording session holding two different events, the later one last.
C12_Witness ==
    /\ SessionState.bIsRecording
    /\ Calls.op = "record"
    /\ Len(SessionState.CustomEvents) = 3
    /\ SessionState.CustomEvents[1].EventName = "e1"
    /\ SessionState.CustomEvents[2].EventName = "e2"
    /\ SessionState.CustomEvents[3].EventName = "e1"

\* C13: whenever the session is not recording, the stored baseline is the
\* unset sentinel.
C13_BaselineUnsetWhenIdle ==
    ~SessionState.bIsRecording => SessionState.QueueLengthAtStart = INDEX_NONE

\* C14: between the iterations of the replay loop and after the stop every
\* snapshot map that was produced has been released, and no snapshot clone
\* is left marked RF_Standalone.
C14_SnapshotsReleased ==
    Calls.op = "stop" =>
        /\ Calls.release = Calls.snap
        /\ Calls.standalone = 0

DefaultChain == <<BlueprintObjectFilter, BlueprintVisiblePropertyFilter>>

\* C15: the filter chain is always empty or exactly the asset-object filter
\* followed by the editable-property filter, and it is the latter from the
\* moment a stop enters its replay until the stop has applied the chain.
C15_FilterChainIsDefault ==
    /\ FilterChain \in {<<>>, DefaultChain}
    /\ (pc # "idle" \/ Returned("completed")) => FilterChain = DefaultChain

\* The second session applied its chain after the first had registered its own.
C15_Witness ==
    /\ Returned("completed")
    /\ Starts = 2
    /\ Calls.filter = 1
    /\ FilterChain = DefaultChain

\* The list left by the first n filters of the chain, each given the list
\* that the one before it left.
RECURSIVE InRegistrationOrder(_, _, _)
InRegistrationOrder(Filters, D, n) ==
    IF n = 0 THEN D
    ELSE FilterTransactionDiffs(Filters[n], InRegistrationOrder(Filters, D, n - 1))

\* C16: ApplyFilters leaves the list that results from running the filters
\* once each in registration order, each on the list left by the one before;
\* an empty chain leaves the list as it was.
C16_FiltersRunInOrder ==
    [][ApplyChain =>
          /\ SessionState'.CapturedDiffs =
                InRegistrationOrder(FilterChain, SessionState.CapturedDiffs, Len(FilterChain))
          /\ FilterChain = <<>> => SessionState'.CapturedDiffs = SessionState.CapturedDiffs]_vars

\* The default chain applied to a list of two transactions, of which the
\* first filter emptied one and the second filter trimmed the other.
C16_Witness ==
    /\ Calls.op = "ApplyFilters"
    /\ Calls.filter = 1
    /\ FilterChain = DefaultChain
    /\ Len(Locals.InOutDiffs) = 2
    /\ Len(FilterTransactionDiffs(BlueprintObjectFilter, Locals.InOutDiffs)) = 1
    /\ SessionState.CapturedDiffs # FilterTransactionDiffs(BlueprintObjectFilter, Locals.InOutDiffs)
    /\ Len(SessionState.CapturedDiffs) = 1

\* C17: applying the default chain to a list that the default chain has
\* already filtered changes nothing.
C17_DefaultChainIdempotent ==
    [][(ApplyChain /\ FilterChain = DefaultChain /\ Calls.filter = 1) =>
          SessionState'.CapturedDiffs = SessionState.CapturedDiffs]_vars

\* The default chain applied twice to a list of two transactions, of which
\* the first application removed something and left something.
C17_Witness ==
    /\ Calls.op = "ApplyFilters"
    /\ Calls.filter = 2
    /\ FilterChain = DefaultChain
    /\ Len(Locals.InOutDiffs) = 2
    /\ SessionState.CapturedDiffs # Locals.InOutDiffs
    /\ SessionState.CapturedDiffs # <<>>

\* The sample type names that contain "Blueprint" and the sample paths that
\* contain "_C", listed by hand.
AssetTypeNames == {TYPE_Blueprint, TYPE_AbilityBlueprint}
GeneratedInstancePaths == {PATH_Asset_C, PATH_Ability_C}

AssetObjectRetained(od) ==
    IF od.ObjectClass \in AssetTypeNames /\ od.ObjectPath \notin GeneratedInstancePaths
    THEN FALSE
    ELSE ObjectHasDifferences(od)

HasObjectDiffs(td) == td.ObjectDiffs # <<>>

\* The transactions of D with the object diffs chosen by Retained, in order,
\* without the transactions left empty.
ObjectsRetained(D, Retained(_)) ==
    SelectSeq([i \in 1..Len(D) |->
                  [D[i] EXCEPT !.ObjectDiffs = SelectSeq(@, Retained)]],
              HasObjectDiffs)

\* C18: the asset-object filter drops an object diff whose type name contains
\* "Blueprint" and whose path does not contain "_C", whatever its flags and
\* property diffs; every other object diff is retained exactly when it has
\* differences, with its property list unchanged.
C18_AssetObjectFilter ==
    [][(ApplyChain /\ FilterChain = <<BlueprintObjectFilter>>) =>
          SessionState'.CapturedDiffs =
              ObjectsRetained(SessionState.CapturedDiffs, AssetObjectRetained)]_vars

\* A transaction of an actor diff and an asset diff, of which the filter
\* dropped the asset diff and retained the actor diff as it was.
C18_Witness ==
    /\ Calls.op = "ApplyFilters"
    /\ Calls.filter = 1
    /\ FilterChain = <<BlueprintObjectFilter>>
    /\ Len(Locals.InOutDiffs) = 1
    /\ Len(Locals.InOutDiffs[1].ObjectDiffs) = 2
    /\ Locals.InOutDiffs[1].ObjectDiffs[2].ObjectClass = TYPE_Blueprint
    /\ Locals.InOutDiffs[1].ObjectDiffs[2].ObjectPath = PATH_Asset
    /\ Len(Locals.InOutDiffs[1].ObjectDiffs[2].PropertyDiffs) > 0
    /\ Len(SessionState.CapturedDiffs) = 1
    /\ SessionState.CapturedDiffs[1].ObjectDiffs = <<Locals.InOutDiffs[1].ObjectDiffs[1]>>

\* The sample type names inside the whitelist (containing Actor, Component
\* or Ability, or ending with _C) and the live object at each sample path,
\* listed by hand.
WhitelistedTypeNames == {TYPE_StaticMeshActor, TYPE_Door_C, TYPE_AbilityBlueprint}

LiveObjectAt(path) ==
    IF path = PATH_Cube THEN "act"
    ELSE IF path = PATH_Asset THEN "bp"
    ELSE IF path = PATH_Mat THEN "mat"
    ELSE "none"

EditableByMarkers(flags) ==
    /\ \E m \in {"CPF_Edit", "CPF_BlueprintVisible"} : m \in flags
    /\ \A m \in {"CPF_EditConst", "CPF_BlueprintReadOnly",
                 "CPF_DisableEditOnInstance", "CPF_DisableEditOnTemplate"} : m \notin flags

FoundNotEditable(o, pd) ==
    \E k \in 1..Len(ClassProperties(o)) :
        /\ ClassProperties(o)[k].name = pd.PropertyName
        /\ ~EditableByMarkers(ClassProperties(o)[k].flags)

UnderscoreNames == {"_Tmp"}

PropertyRetained(od, pd) ==
    IF od.ObjectClass \notin WhitelistedTypeNames THEN TRUE
    ELSE IF LiveObjectAt(od.ObjectPath) # "none"
         THEN ~FoundNotEditable(LiveObjectAt(od.ObjectPath), pd)
         ELSE pd.PropertyName \notin UnderscoreNames

PropertiesRetained(od) ==
    LET Retained(pd) == PropertyRetained(od, pd)
    IN  [od EXCEPT !.PropertyDiffs = SelectSeq(@, Retained)]

EditablePropertiesOf(D) ==
    [i \in 1..Len(D) |->
        [D[i] EXCEPT !.ObjectDiffs =
            [k \in 1..Len(D[i].ObjectDiffs) |-> PropertiesRetained(D[i].ObjectDiffs[k])]]]

MapKeys(m) == {m[j].key : j \in 1..Len(m)}

\* The object diffs of the result that name object o.
DiffsOf(R, o) == {k \in 1..Len(R) : R[k].ObjectPath = PathNameOf(o)}

\* C20: BuildDiffFromSnapshots yields, for a key of the before map missing
\* from the after map, an object diff flagged removed with no property diffs;
\* for a key of both maps, an object diff holding the property diffs of the
\* two snapshots; for a key of the after map only, an object diff flagged
\* added with no property diffs; no object diff is flagged both added and
\* removed, and none is without differences.
C20_DiffOfSnapshotMaps ==
    Calls.op = "BuildDiffFromSnapshots" =>
        LET Before == Locals.Before
            After == Locals.After
            R == SessionState.CapturedDiffs[1].ObjectDiffs
        IN  /\ \A o \in MapKeys(Before) \ MapKeys(After) :
                  \E k \in DiffsOf(R, o) :
                      /\ R[k].bIsObjectRemoved
                      /\ ~R[k].bIsObjectAdded
                      /\ R[k].PropertyDiffs = <<>>
            /\ \A o \in MapKeys(Before) \cap MapKeys(After) :
                  LET P == CollectPropertyDiffs(MapFind(Before, o), MapFind(After, o))
                  IN  IF P = <<>> THEN DiffsOf(R, o) = {}
                      ELSE \E k \in DiffsOf(R, o) :
                               /\ ~R[k].bIsObjectRemoved
                               /\ ~R[k].bIsObjectAdded
                               /\ R[k].PropertyDiffs = P
            /\ \A o \in MapKeys(After) \ MapKeys(Before) :
                  \E k \in DiffsOf(R, o) :
                      /\ R[k].bIsObjectAdded
                      /\ ~R[k].bIsObjectRemoved
                      /\ R[k].PropertyDiffs = <<>>
            /\ \A o \in Objects :
                  /\ Cardinality(DiffsOf(R, o)) <= 1
                  /\ o \notin MapKeys(Before) \cup MapKeys(After) => DiffsOf(R, o) = {}
            /\ \A k \in 1..Len(R) :
                  /\ ~(R[k].bIsObjectAdded /\ R[k].bIsObjectRemoved)
                  /\ ObjectHasDifferences(R[k])
                  /\ \E o \in Objects : k \in DiffsOf(R, o)

\* A diff of three objects: one in both maps with a changed field, one whose
\* clone is missing from the after map, one present in the after map only.
C20_Witness ==
    /\ Calls.op = "BuildDiffFromSnapshots"
    /\ MapKeys(Locals.Before) = {"act", "bp"}
    /\ MapKeys(Locals.After) = {"act", "mat"}
    /\ Len(SessionState.CapturedDiffs[1].ObjectDiffs) = 3
    /\ Len(SessionState.CapturedDiffs[1].ObjectDiffs[1].PropertyDiffs) > 0
    /\ SessionState.CapturedDiffs[1].ObjectDiffs[2].bIsObjectRemoved
    /\ SessionState.CapturedDiffs[1].ObjectDiffs[3].bIsObjectAdded

\* The fields of a snapshot all hold the values of the other snapshot.
SameFields(OldObject, NewObject) ==
    /\ OldObject.props = NewObject.props
    /\ \A k \in 1..Len(OldObject.props) :
          OldObject.vals[OldObject.props[k].name] = NewObject.vals[OldObject.props[k].name]

\* What the comparison of a field of the given kind reports.
ComparisonReports(kind, old, new) ==
    IF kind = "IntProperty" THEN old # new
    ELSE IF kind = "ObjectProperty"
         THEN old.null # new.null \/ (~old.null /\ ~new.null /\ old.cls # new.cls)
    ELSE IF kind = "WeakObjectProperty"
         THEN old.null # new.null \/ (~old.null /\ ~new.null /\ old.path # new.path)
    ELSE old.path # new.path

FieldOf(Object, n) == Object.props[CHOOSE k \in 1..Len(Object.props) : Object.props[k].name = n]

DeclaredIn(Object, n) == \E k \in 1..Len(Object.props) : Object.props[k].name = n

\* C21: CollectPropertyDiffs of two snapshots of the same type whose fields
\* are all equal yields no property diff, so a touched object left unchanged
\* contributes no object diff; a property diff of a field present on both
\* sides with the same declared type is emitted only when the comparison of
\* the field reports a difference.
C21_EqualSnapshotsNoDiff ==
    LET OldObject == Locals.OldObject
        NewObject == Locals.NewObject
    IN  /\ Calls.op = "CollectPropertyDiffs" =>
              /\ SameFields(OldObject, NewObject) => Locals.OutDiffs = <<>>
              /\ \A j \in 1..Len(Locals.OutDiffs) :
                    LET n == Locals.OutDiffs[j].PropertyName
                    IN  (/\ DeclaredIn(OldObject, n)
                         /\ DeclaredIn(NewObject, n)
                         /\ FieldOf(OldObject, n).kind = FieldOf(NewObject, n).kind)
                        => ComparisonReports(FieldOf(OldObject, n).kind,
                                             OldObject.vals[n], NewObject.vals[n])
        /\ Calls.op = "BuildDiffFromSnapshots" =>
              (SameFields(OldObject, NewObject) =>
                  SessionState.CapturedDiffs[1].ObjectDiffs = <<>>)

\* Two snapshots of a class with an integer and an object reference field,
\* holding the same values, compared with no property diff.
C21_Witness ==
    /\ Calls.op = "CollectPropertyDiffs"
    /\ Len(Locals.OldObject.props) = 2
    /\ Locals.OldObject.props[2].kind = "ObjectProperty"
    /\ ~Locals.OldObject.vals["Ref"].null
    /\ SameFields(Locals.OldObject, Locals.NewObject)
    /\ Locals.OutDiffs = <<>>

\* The text of the lines, one after the other.
RECURSIVE FlattenLines(_)
FlattenLines(lines) ==
    IF lines = <<>> THEN <<>> ELSE Head(lines) \o FlattenLines(Tail(lines))

\* C22: under every interleaving of Serialize, GetCapturedLogs and
\* ClearCapturedLogs on several threads, a thread reads or writes the
\* captured-log buffer only while it holds the mutex; every accepted message
\* is in the buffer exactly once as one contiguous line; and GetCapturedLogs
\* returns what the buffer holds at the instant its copy ends.
C22_BufferGuardedByMutex ==
    /\ \A t \in Threads :
          pc[t] \in {"Serialize_append", "Get_copy", "Clear_empty"} => Scene.LogMutex = t
    /\ Scene.LogMutex = "free" => Scene.CapturedLogs = FlattenLines(Calls.lines)
    /\ \A t \in Threads :
          pc[t] = "Get_return" => Locals[t].Result = Scene.CapturedLogs

\* GetCapturedLogs returns two whole lines written from two threads while a
\* third Serialize waits for the mutex.
C22_Witness ==
    /\ pc["game"] = "Get_return"
    /\ pc["worker"] = "Serialize_lock"
    /\ Len(Calls.lines) = 2
    /\ Locals["game"].Result = FlattenLines(Calls.lines)

\* C30: once SetEnabled(false) has returned, nothing is appended to the
\* captured-log buffer until SetEnabled(true) is called, whatever Serialize
\* calls run on other threads.
C30_NoAppendAfterDisable ==
    [][(Calls.disabled /\ Calls'.disabled) =>
          Len(Scene'.CapturedLogs) <= Len(Scene.CapturedLogs)]_vars

\* C23: a stop whose host calls return always ends: while it runs it has
\* issued at most QueueLength undo calls and at most EndIndex+1 redo calls,
\* it ends with the replay completed or with the fatal abort of the rewind,
\* and the session is then not recording.
C23_StopTerminates ==
    /\ [](pc # "idle" =>
            /\ Calls.undo <= Locals.QueueLength
            /\ Len(Calls.redo) <= Locals.EndIndex + 1)
    /\ [][(pc # "idle" /\ pc' = "idle") =>
            /\ Calls'.undo <= Locals.QueueLength
            /\ Len(Calls'.redo) <= Locals.EndIndex + 1
            /\ Calls'.outcome \in {"completed", "fatal"}
            /\ ~SessionState'.bIsRecording]_vars
    /\ (pc # "idle") ~> (pc = "idle" /\ ~SessionState.bIsRecording)

\* A stop that undid two transactions, redid two and returned.
C23_Witness ==
    /\ Returned("completed")
    /\ Calls.undo = 2
    /\ Len(Calls.redo) = 2

\* C24: replay alignment.  At every replay step at which a redo is issued
\* the host cursor stands at the ordinal of the record that was fetched, so
\* the operation the redo re-applies is the one that labels the diff; also
\* after a skipped step.
C24_ReplayAligned ==
    \A k \in 1..Len(Calls.redo) : Calls.redo[k].cursor = Calls.redo[k].ordinal

\* C25: every edit operation put on the history stack while the session is
\* recording has an ordinal in the range [baseline, length - 1] that stop
\* captures: an edit made while recording lands at an ordinal at or above the
\* baseline, and stop replays the range from the baseline to the last
\* ordinal, whatever edits, undos and redos came before.
C25_RecordedEditsInRange ==
    /\ [][(/\ SessionState.bIsRecording
           /\ UndoBuffer' # UndoBuffer
           /\ Len(UndoBuffer') > 0)
          => Len(UndoBuffer') - 1 >= SessionState.QueueLengthAtStart]_vars
    /\ [][(pc = "idle" /\ pc' = "rewind")
          => /\ Locals'.StartIndex = SessionState.QueueLengthAtStart
             /\ Locals'.EndIndex = Len(UndoBuffer) - 1]_vars

\* C26: RewindEditorTransactions returns true (the replay starts) exactly
\* when the host stack ends fully rewound, whatever number of operations
\* were undone when stop was called; it returns false (the stop ends) only
\* if an operation that was still applied could not be undone.
C26_RewindReturnsTrueIffRewound ==
    [][(pc = "rewind" /\ pc' # "rewind")
       => /\ (pc' = "replay") <=> (UndoCount' = Len(UndoBuffer'))
          /\ (pc' = "idle") => CanUndo]_vars

\* The scene in which the first n transactions of the queue are applied.
RECURSIVE SceneWithApplied(_)
SceneWithApplied(n) ==
    IF n = 0 THEN [o \in Objects |-> FreshObject(o)]
    ELSE ApplyTransaction(SceneWithApplied(n - 1), UndoBuffer[n])

\* A stop returns after a capture in which every operation was applied at
\* the call, every undo succeeded, every record existed and every redo
\* succeeded.
CleanRoundTrip(calls) ==
    /\ calls.op = "stop"
    /\ calls.outcome = "completed"
    /\ calls.undo = Len(UndoBuffer)
    /\ ~calls.undoFailed
    /\ calls.missing = {}
    /\ Len(calls.redo) = Len(UndoBuffer)
    /\ \A k \in 1..Len(calls.redo) : calls.redo[k].ok

RECURSIVE PropertiesPruned(_, _)
PropertiesPruned(s, t) ==
    IF s = <<>> THEN TRUE
    ELSE IF t = <<>> THEN FALSE
    ELSE \/ Head(s) = Head(t) /\ PropertiesPruned(Tail(s), Tail(t))
         \/ PropertiesPruned(s, Tail(t))

\* The object diff od is od0 with a subsequence of its properties.
ObjectPruned(od, od0) ==
    /\ [od EXCEPT !.PropertyDiffs = <<>>] = [od0 EXCEPT !.PropertyDiffs = <<>>]
    /\ PropertiesPruned(od.PropertyDiffs, od0.PropertyDiffs)

RECURSIVE ObjectsPruned(_, _)
ObjectsPruned(s, t) ==
    IF s = <<>> THEN TRUE
    ELSE IF t = <<>> THEN FALSE
    ELSE \/ ObjectPruned(Head(s), Head(t)) /\ ObjectsPruned(Tail(s), Tail(t))
         \/ ObjectsPruned(s, Tail(t))

\* The transaction diff td is td0 with a pruned subsequence of its objects.
TransactionPruned(td, td0) ==
    /\ [td EXCEPT !.ObjectDiffs = <<>>] = [td0 EXCEPT !.ObjectDiffs = <<>>]
    /\ ObjectsPruned(td.ObjectDiffs, td0.ObjectDiffs)

RECURSIVE TransactionsPruned(_, _)
TransactionsPruned(s, t) ==
    IF s = <<>> THEN TRUE
    ELSE IF t = <<>> THEN FALSE
    ELSE \/ TransactionPruned(Head(s), Head(t)) /\ TransactionsPruned(Tail(s), Tail(t))
         \/ TransactionsPruned(s, Tail(t))

\* C28: filters only prune.  After each filter of the chain has run, the
\* transaction list is a subsequence of the list the filter was given, each
\* surviving transaction keeps a subsequence of its objects, each surviving
\* object a subsequence of its properties, and every other field of the
\* surviving entries is as it was.
C28_FiltersOnlyPrune ==
    [][ApplyChain =>
          \A n \in 1..Len(FilterChain) :
             TransactionsPruned(
                InRegistrationOrder(FilterChain, SessionState.CapturedDiffs, n),
                InRegistrationOrder(FilterChain, SessionState.CapturedDiffs, n - 1))]_vars

\* The default chain removed a transaction, an object of the transaction it
\* kept, and a property of the object it kept.
C28_Witness ==
    /\ Calls.op = "ApplyFilters"
    /\ Calls.filter = 1
    /\ FilterChain = DefaultChain
    /\ Len(Locals.InOutDiffs) = 2
    /\ Len(SessionState.CapturedDiffs) = 1
    /\ Len(SessionState.CapturedDiffs[1].ObjectDiffs) = 1
    /\ Len(SessionState.CapturedDiffs[1].ObjectDiffs[1].PropertyDiffs) = 1
    /\ \E i \in 1..2 :
          /\ Len(Locals.InOutDiffs[i].ObjectDiffs) = 2
          /\ Len(Locals.InOutDiffs[i].ObjectDiffs[1].PropertyDiffs) = 2
          /\ TransactionPruned(SessionState.CapturedDiffs[1], Locals.InOutDiffs[i])

\* C29: the two default filters commute.  The list that the default chain
\* leaves (asset-object filter, then editable-property filter) is the list
\* that the two filters leave when they run in the other order.
C29_DefaultFiltersCommute ==
    [][(ApplyChain /\ FilterChain = DefaultChain) =>
          SessionState'.CapturedDiffs =
             ApplyFilters(<<BlueprintVisiblePropertyFilter, BlueprintObjectFilter>>,
                          SessionState.CapturedDiffs)]_vars

\* The default chain ran on a list of which each of the two filters, run
\* alone, removes something different.
C29_Witness ==
    /\ Calls.op = "ApplyFilters"
    /\ Calls.filter = 1
    /\ FilterChain = DefaultChain
    /\ FilterTransactionDiffs(BlueprintObjectFilter, Locals.InOutDiffs) # Locals.InOutDiffs
    /\ FilterTransactionDiffs(BlueprintVisiblePropertyFilter, Locals.InOutDiffs)
          # Locals.InOutDiffs
    /\ FilterTransactionDiffs(BlueprintObjectFilter, Locals.InOutDiffs)
          # FilterTransactionDiffs(BlueprintVisiblePropertyFilter, Locals.InOutDiffs)
    /\ SessionState.CapturedDiffs
          \notin {<<>>,
                  FilterTransactionDiffs(BlueprintObjectFilter, Locals.InOutDiffs),
                  FilterTransactionDiffs(BlueprintVisiblePropertyFilter, Locals.InOutDiffs)}

====
